---------------------------- MODULE Spec2Model ----------------------------
(***************************************************************************)
(* Emal expression engine: the character-driven tokenizing state machine   *)
(* (stateMachine.js), the number tokenizer (number.js), the expression     *)
(* lexer, the shunting-yard conversion and the postfix evaluator           *)
(* (expression.js).                                                        *)
(*                                                                         *)
(* Text is a sequence of one-character strings; a JavaScript string value  *)
(* such as a token's `value` is such a sequence too ("" is << >>).         *)
(* A JavaScript object is a function from its own property names, so that  *)
(* reading a property the object does not have yields `undefined`.         *)
(***************************************************************************)
EXTENDS Integers, Sequences, FiniteSets, TLC

VARIABLES
    input,          \* the text handed to expressionSm.run / new Expression
    position,       \* expressionSm.position, the driving machine's cursor
    currentState,   \* expressionSm.currentState, one of the MS values
    parsingState,   \* run()'s local parsingState, by state-function name
    tokens,         \* run()'s tokens array
    currentToken,   \* run()'s local currentToken
    delegations,    \* history: the successful delegate() calls of this run
    pc,             \* where the Expression is: see the actions
    reduceIndex,    \* number of elements the running reduce() has visited
    acc,            \* the constructor's accumulator {tokens, stack}
    thisTokens,     \* Expression.tokens
    variables,      \* evaluate()'s argument
    evalAcc,        \* evaluate()'s accumulator, the operand stack
    result,         \* what evaluate() returned
    lastCall,       \* history: the last method.apply(null, args)
    source,         \* history: the expression the text was written from
    machine,        \* the StateMachine whose run() is stepped, by name
    isExponent,     \* this.isExponent of the number machine's run
    transformCalls, \* history: the calls of transform() since run()
    literal,        \* history: the parts the parsed literal was written from
    operands,       \* history: the receiver and arguments of the last call
    opName,         \* history: the EmalNumber method called last
    number,         \* the EmalNumber constructed, returned or rendered last
    decimalCount,   \* toString()'s argument
    rendered,       \* what toString() returned
    exception,      \* the exception the last call threw, "none" if it returned
    codePc,         \* where the CodeBlock is: see the actions
    codeStr,        \* the constructor's argument
    lineIndex,      \* number of lines the running reduce/forEach has visited
    lines,          \* CodeBlock.lines
    userData,       \* CodeBlock.evaluate's argument
    generatedData,  \* CodeBlock.evaluate's generatedData
    columnHeap,     \* the Column objects constructed so far, by reference
    columns,        \* EmalManager.columns, as references into columnHeap
    rows,           \* EmalManager.rows
    managerThrown,  \* history: whether the manager's last call threw
    numberHeap,     \* the EmalNumber objects of the log10 section, by reference
    asGiven,        \* history: the operands as they were constructed
    logFrame,       \* log10's locals and its position: see the actions
    returned        \* the reference the last call returned, 0 before it

lexVars == <<input, position, currentState, parsingState, tokens,
             currentToken, delegations>>

exprVars == <<pc, reduceIndex, acc, thisTokens, variables, evalAcc, result,
              lastCall, source>>

numberVars == <<machine, isExponent, transformCalls, literal, operands,
                opName, number, decimalCount, rendered, exception>>

codeVars == <<codePc, codeStr, lineIndex, lines, userData, generatedData>>

managerVars == <<columnHeap, columns, rows, managerThrown>>

logVars == <<numberHeap, asGiven, logFrame, returned>>

dataVars == <<codeVars, managerVars, logVars>>

vars == <<input, position, currentState, parsingState, tokens,
          currentToken, delegations, pc, reduceIndex, acc, thisTokens,
          variables, evalAcc, result, lastCall, source, machine, isExponent,
          transformCalls, literal, operands, opName, number, decimalCount,
          rendered, exception, dataVars>>

-----------------------------------------------------------------------------
(* JavaScript values *)

\* log10 is not running: no local is set
NoFrame ==
    [pc |-> "none", initialX |-> 0, x |-> 0, preprocessPow |-> 0,
     preprocessPowTen |-> 0, delta |-> 0, deltaPow |-> 0, result |-> 0,
     i |-> 0]

\* the value of a missing property, a missing argument, an unbound name
undefined == "undefined"

\* charCodeAt() past the end of the string
NaN == "NaN"

Get(obj, key) == IF key \in DOMAIN obj THEN obj[key] ELSE undefined

\* Object.assign({}, a, b): b's properties win
Assign(a, b) == b @@ a

\* `undefined` where an operand or a result is expected: it has no property
undefinedValue == [constructor |-> undefined]

\* the characters of a string literal
LOG == <<"l", "o", "g">>
MAX == <<"m", "a", "x">>

-----------------------------------------------------------------------------
(* matchers.js *)

isSign(charCode) == charCode \in {"+", "-"}

isDecimalPoint(charCode) == charCode \in {",", "."}

isCommaSeparator(charCode) == charCode \in {",", ";"}

isOpeningBracket(charCode) == charCode \in {"(", "["}

isClosingBracket(charCode) == charCode \in {")", "]"}

isDigit(charCode) ==
    charCode \in {"0", "1", "2", "3", "4", "5", "6", "7", "8", "9"}

\* tab and space
isWhitespace(charCode) == charCode \in {"\t", " "}

isNaN(charCode) == charCode = NaN

-----------------------------------------------------------------------------
(* stateMachine.js *)

MS == [WAITING |-> 0, RUNNING |-> 1, PARSED |-> 2, TRANSFORMED |-> 3,
       ERROR |-> 4]

\* input.charCodeAt(position)
charCodeAt(str, pos) ==
    IF pos >= 0 /\ pos < Len(str) THEN str[pos + 1] ELSE NaN

\* input.substr(position)
substr(str, pos) ==
    IF pos >= Len(str) THEN << >> ELSE SubSeq(str, pos + 1, Len(str))

\* The closure of one run(): what its utilities read and write.  `type` is
\* the machine's type; `ret` is the state function the last call returned.
NewRun(type, str) ==
    [type |-> type, input |-> str, position |-> 0,
     currentState |-> MS.RUNNING,
     tokens |-> << >>, currentToken |-> -1,
     isExponent |-> FALSE, delegations |-> << >>, ret |-> "none"]

Return(c, state) == [c EXCEPT !.ret = state]

\* token(context, tokenName)
token(c, context, tokenName) ==
    IF c.type = "sequential"
    THEN [c EXCEPT !.currentToken = c.currentToken + 1,
                   !.tokens = Append(c.tokens,
                                     Assign(context, [value |-> << >>]))]
    ELSE [c EXCEPT !.currentToken = tokenName,
                   !.tokens = (tokenName :> Assign(context,
                                                   [value |-> << >>]))
                              @@ c.tokens]

\* tokens[currentToken] of a sequential machine is the (currentToken+1)-th
\* element of the sequence
TokenIndex(c) ==
    IF c.type = "sequential" THEN c.currentToken + 1 ELSE c.currentToken

\* String.fromCharCode(charCode): NaN gives the character of code 0,
\* written "\\0" here
fromCharCode(charCode) == IF charCode = NaN THEN "\\0" ELSE charCode

\* the character is appended to the first token of the list
eat_First(c, charCode) ==
    LET k == IF c.type = "sequential" THEN 1 ELSE TokenIndex(c)
    IN  [c EXCEPT !.tokens[k] =
            Assign(c.tokens[k],
                   [value |-> c.tokens[k].value
                              \o <<fromCharCode(charCode)>>])]

\* eat(charCode)
eat(c, charCode) ==
    LET k == TokenIndex(c)
    IN  [c EXCEPT !.tokens[k] =
            Assign(c.tokens[k],
                   [value |-> c.tokens[k].value
                              \o <<fromCharCode(charCode)>>])]

\* mutate(context)
mutate(c, context) ==
    LET k == TokenIndex(c)
    IN  [c EXCEPT !.tokens[k] = Assign(c.tokens[k], context)]

\* the first three characters of the token's value
eaten_Prefix(c) ==
    LET text == c.tokens[TokenIndex(c)].value
    IN  IF Len(text) > 3 THEN SubSeq(text, 1, 3) ELSE text

\* eaten()
eaten(c) == c.tokens[TokenIndex(c)].value

\* end()
end(c) == Return([c EXCEPT !.currentState = MS.PARSED], "end")

\* nok()
nok(c) == Return([c EXCEPT !.currentState = MS.ERROR], "nok")

\* transform(): every registered transformer whose key is among the tokens
\* replaces that token; a machine already TRANSFORMED or in ERROR is left
\* alone.  toValue gives the token's text, toNumber its BigInt.
RECURSIVE toBigInt(_)
toBigInt(str) ==
    IF str = << >> THEN 0
    ELSE LET last == str[Len(str)]
             digit == CHOOSE d \in 0..9 : ToString(d) = last
         IN  10 * toBigInt(SubSeq(str, 1, Len(str) - 1)) + digit

toNumber(tok) == toBigInt(tok.value)

toValue(tok) == tok.value

ApplyTransformer(name, tok) ==
    IF name = "toNumber" THEN toNumber(tok) ELSE toValue(tok)

transform(sm, m) ==
    IF m.currentState >= MS.TRANSFORMED THEN m
    ELSE [m EXCEPT
            !.tokens = [k \in DOMAIN m.tokens |->
                           IF k \in DOMAIN sm.transformers
                           THEN ApplyTransformer(sm.transformers[k],
                                                 m.tokens[k])
                           ELSE m.tokens[k]],
            !.currentState = MS.TRANSFORMED]

hasThrown(m) == m.currentState = MS.ERROR

\* run() and its loop call the state functions, which call them back
\* through delegate()
RECURSIVE run(_, _)
RECURSIVE Iterate(_, _)

\* the cursor moved without the character the loop counts itself
delegate_OffByOne(c, sm, context, tokenName) ==
    LET subRunner == transform(sm, run(sm, substr(c.input, c.position)))
        moved == [c EXCEPT
                    !.position = c.position + subRunner.position - 1,
                    !.delegations = Append(c.delegations,
                        [at |-> c.position,
                         consumed |-> subRunner.position - 1])]
    IN  IF hasThrown(subRunner)
        THEN [hasDelegated |-> FALSE, c |-> c]
        ELSE [hasDelegated |-> TRUE,
              c |-> token(moved,
                          Assign(context, [children |-> subRunner.tokens]),
                          tokenName)]

\* delegate(sm, context, tokenName): the nested machine runs on the rest of
\* the input; on success the cursor moves over what it consumed and one
\* token carries its tokens as children.
delegate(c, sm, context, tokenName) ==
    LET subRunner == transform(sm, run(sm, substr(c.input, c.position)))
        moved == [c EXCEPT
                    !.position = c.position + subRunner.position - 2,
                    !.delegations = Append(c.delegations,
                        [at |-> c.position,
                         consumed |-> subRunner.position - 1])]
    IN  IF hasThrown(subRunner)
        THEN [hasDelegated |-> FALSE, c |-> c]
        ELSE [hasDelegated |-> TRUE,
              c |-> token(moved,
                          Assign(context, [children |-> subRunner.tokens]),
                          tokenName)]

-----------------------------------------------------------------------------
(* number.js: the states of numberSm *)

startIntPart(c, charCode) ==
    IF ~isDigit(charCode) THEN nok(c)
    ELSE Return(eat(token(c, << >>,
                          IF c.isExponent THEN "eIntPart" ELSE "intPart"),
                    charCode),
                "intPart")

sign(c, charCode) ==
    IF ~isSign(charCode) THEN startIntPart(c, charCode)
    ELSE Return(eat(token(c, << >>,
                          IF c.isExponent THEN "eSign" ELSE "sign"),
                    charCode),
                "startIntPart")

start(c, charCode) == sign([c EXCEPT !.isExponent = FALSE], charCode)

\* a decimal point accepted in the exponent's digits too
intPart_InExponentToo(c, charCode) ==
    IF charCode \in {"E", "e"}
    THEN Return([c EXCEPT !.isExponent = TRUE], "sign")
    ELSE IF isDecimalPoint(charCode)
    THEN Return(token(c, << >>, "floatPart"), "floatPart")
    ELSE IF isDigit(charCode)
    THEN Return(eat(c, charCode), "intPart")
    ELSE end(c)

intPart(c, charCode) ==
    IF charCode \in {"E", "e"}
    THEN Return([c EXCEPT !.isExponent = TRUE], "sign")
    ELSE IF isDecimalPoint(charCode) /\ ~c.isExponent
    THEN Return(token(c, << >>, "floatPart"), "floatPart")
    ELSE IF isDigit(charCode)
    THEN Return(eat(c, charCode), "intPart")
    ELSE end(c)

floatPart(c, charCode) ==
    IF charCode \in {"E", "e"}
    THEN Return([c EXCEPT !.isExponent = TRUE], "sign")
    ELSE IF isDigit(charCode)
    THEN Return(eat(c, charCode), "floatPart")
    ELSE end(c)

numberSm ==
    [startState |-> "start",
     states |-> {"start", "sign", "startIntPart", "intPart", "floatPart"},
     transformers |-> [sign |-> "toValue", intPart |-> "toValue",
                       floatPart |-> "toValue", eSign |-> "toValue",
                       eIntPart |-> "toNumber"],
     order |-> <<"sign", "intPart", "floatPart", "eSign", "eIntPart">>,
     type |-> "parallel"]

-----------------------------------------------------------------------------
(* expression.js: the tables and the states of expressionSm *)

EEXPR_OPERATORS ==
    [x \in {<<"+">>, <<"-">>, <<"*">>, <<"/">>} |->
        CASE x = <<"+">> -> [priority |-> 1, methodName |-> "add"]
          [] x = <<"-">> -> [priority |-> 1, methodName |-> "sub"]
          [] x = <<"*">> -> [priority |-> 2, methodName |-> "mul"]
          [] x = <<"/">> -> [priority |-> 2, methodName |-> "div"]]

EEXPR_FUNCTIONS ==
    [x \in {LOG, MAX} |->
        IF x = LOG THEN [argumentCount |-> 1, methodName |-> "log10"]
                   ELSE [argumentCount |-> 2, methodName |-> "max"]]

\* Object.keys(EEXPR_OPERATORS).map(c => c.charCodeAt(0))
EEXPR_OPERATOR_CHARS == {c[1] : c \in DOMAIN EEXPR_OPERATORS}

EEXPR_FUNCTION_NAMES == DOMAIN EEXPR_FUNCTIONS

isOperator(charCode) == charCode \in EEXPR_OPERATOR_CHARS

RECURSIVE exprToken(_, _)

\* the end of the input read as one more character of the name
variableOrFunction_EatsEnd(c, charCode) ==
    IF \/ isWhitespace(charCode) \/ isOperator(charCode)
       \/ isOpeningBracket(charCode) \/ isClosingBracket(charCode)
       \/ isCommaSeparator(charCode)
    THEN exprToken(IF eaten(c) \in EEXPR_FUNCTION_NAMES
                   THEN mutate(c, [type |-> "function"]) ELSE c,
                   charCode)
    ELSE Return(eat(c, charCode), "variableOrFunction")

variableOrFunction(c, charCode) ==
    IF \/ isWhitespace(charCode) \/ isOperator(charCode)
       \/ isOpeningBracket(charCode) \/ isClosingBracket(charCode)
       \/ isCommaSeparator(charCode)
    THEN exprToken(IF eaten(c) \in EEXPR_FUNCTION_NAMES
                   THEN mutate(c, [type |-> "function"]) ELSE c,
                   charCode)
    ELSE IF isNaN(charCode)
    THEN end(IF eaten(c) \in EEXPR_FUNCTION_NAMES
             THEN mutate(c, [type |-> "function"]) ELSE c)
    ELSE Return(eat(c, charCode), "variableOrFunction")

\* exprToken once delegation was not tried or was rejected
exprTokenSingle(c, charCode) ==
    LET opCond == isOperator(charCode)
        csCond == isCommaSeparator(charCode)
        obCond == isOpeningBracket(charCode)
        cbCond == isClosingBracket(charCode)
    IN  IF opCond \/ csCond \/ obCond \/ cbCond
        THEN LET context ==
                    IF opCond THEN [type |-> "operator"]
                    ELSE IF csCond THEN [type |-> "comma"]
                    ELSE [type |-> "bracket",
                          bracketType |-> IF cbCond THEN "closing"
                                                    ELSE "opening"]
             IN  Return(eat(token(c, context, undefined), charCode),
                        "exprToken")
        ELSE IF isWhitespace(charCode) THEN Return(c, "exprToken")
        ELSE IF isNaN(charCode) THEN end(c)
        ELSE variableOrFunction(token(c, [type |-> "variable"], undefined),
                                charCode)

\* a rejected delegation ends the call
exprToken_SkipsRejected(c, charCode) ==
    IF isDigit(charCode) \/ isSign(charCode)
    THEN LET d == delegate(c, numberSm, [type |-> "number"], undefined)
         IN  IF d.hasDelegated THEN Return(d.c, "exprToken")
             ELSE Return(c, "exprToken")
    ELSE exprTokenSingle(c, charCode)

exprToken(c, charCode) ==
    IF isDigit(charCode) \/ isSign(charCode)
    THEN LET d == delegate(c, numberSm, [type |-> "number"], undefined)
         IN  IF d.hasDelegated THEN Return(d.c, "exprToken")
             ELSE exprTokenSingle(c, charCode)
    ELSE exprTokenSingle(c, charCode)

expressionSm ==
    [startState |-> "exprToken",
     states |-> {"exprToken", "variableOrFunction"},
     transformers |-> << >>,
     order |-> << >>,
     type |-> "sequential"]

-----------------------------------------------------------------------------
(* code.js: the states of lineSm *)

VARIABLE_KW == <<"l", "e", "t">>

expression(c, charCode) ==
    IF isNaN(charCode) THEN end(c)
    ELSE Return(eat(c, charCode), "expression")

afterEqual(c, charCode) ==
    IF isWhitespace(charCode) THEN Return(c, "afterEqual")
    ELSE expression(token(c, << >>, "expression"), charCode)

equalSign(c, charCode) ==
    IF charCode # "=" THEN nok(c) ELSE Return(c, "afterEqual")

beforeEqual(c, charCode) ==
    IF charCode = "=" THEN equalSign(c, charCode)
    ELSE Return(c, "beforeEqual")

unit(c, charCode) ==
    IF charCode = "=" THEN equalSign(c, charCode)
    ELSE IF isWhitespace(charCode) THEN beforeEqual(c, charCode)
    ELSE Return(eat(c, charCode), "unit")

variable(c, charCode) ==
    IF charCode = "=" THEN equalSign(c, charCode)
    ELSE IF isWhitespace(charCode) THEN beforeEqual(c, charCode)
    ELSE IF charCode = "_" THEN Return(token(c, << >>, "unit"), "unit")
    ELSE Return(eat(c, charCode), "variable")

afterKeyword(c, charCode) ==
    IF isWhitespace(charCode) THEN Return(c, "afterKeyword")
    ELSE variable(token(c, << >>, "variable"), charCode)

keyword(c, charCode) ==
    IF isWhitespace(charCode) THEN afterKeyword(c, charCode)
    ELSE Return(eat(c, charCode), "keyword")

\* lineSm's state `start`
lineStart(c, charCode) ==
    IF isWhitespace(charCode) THEN Return(c, "lineStart")
    ELSE keyword(token(c, << >>, "keyword"), charCode)

lineSm ==
    [startState |-> "lineStart",
     states |-> {"lineStart", "keyword", "afterKeyword", "variable", "unit",
                 "beforeEqual", "equalSign", "afterEqual", "expression"},
     transformers |-> [keyword |-> "toValue", variable |-> "toValue",
                       unit |-> "toValue", expression |-> "toExpression"],
     order |-> <<"keyword", "variable", "unit", "expression">>,
     type |-> "parallel"]

-----------------------------------------------------------------------------
(* stateMachine.js: run() *)

\* parsingState.call(_this, charCode)
CallState(state, c, charCode) ==
    CASE state = "start" -> start(c, charCode)
      [] state = "sign" -> sign(c, charCode)
      [] state = "startIntPart" -> startIntPart(c, charCode)
      [] state = "intPart" -> intPart(c, charCode)
      [] state = "floatPart" -> floatPart(c, charCode)
      [] state = "exprToken" -> exprToken(c, charCode)
      [] state = "variableOrFunction" -> variableOrFunction(c, charCode)
      [] state = "lineStart" -> lineStart(c, charCode)
      [] state = "keyword" -> keyword(c, charCode)
      [] state = "afterKeyword" -> afterKeyword(c, charCode)
      [] state = "variable" -> variable(c, charCode)
      [] state = "unit" -> unit(c, charCode)
      [] state = "beforeEqual" -> beforeEqual(c, charCode)
      [] state = "equalSign" -> equalSign(c, charCode)
      [] state = "afterEqual" -> afterEqual(c, charCode)
      [] state = "expression" -> expression(c, charCode)

\* the loop without its test for the end of the input
Iterate_NoForcedError(c, state) ==
    LET r == CallState(state, c, charCodeAt(c.input, c.position))
    IN  [r EXCEPT !.position = r.position + 1]

\* One iteration of the character loop, with the position++ that follows it
\* unless the loop breaks at the end of the input.
Iterate(c, state) ==
    LET r == CallState(state, c, charCodeAt(c.input, c.position))
    IN  IF r.position >= Len(r.input) /\ r.currentState = MS.RUNNING
        THEN [r EXCEPT !.currentState = MS.ERROR]
        ELSE [r EXCEPT !.position = r.position + 1]

RECURSIVE Loop(_, _)
Loop(c, state) ==
    IF c.currentState # MS.RUNNING THEN c
    ELSE LET r == Iterate(c, state) IN Loop(r, r.ret)

\* run(input): the machine object afterwards
run(sm, str) == Loop(NewRun(sm.type, str), sm.startState)

-----------------------------------------------------------------------------
(* number.js: EmalNumber.fromTokens *)

EmalNumber(rawInt, decimalPlace) ==
    [constructor |-> "EmalNumber", rawInt |-> rawInt,
     decimalPlace |-> decimalPlace, isNegative |-> rawInt < 0]

\* BigInt(`${sign}${digits}`)
BigInt(signChars, digits) ==
    IF signChars = <<"-">> THEN 0 - toBigInt(digits) ELSE toBigInt(digits)

\* the exponent is added to the count of fractional digits
fromTokens_ExponentAdded(userTokens) ==
    LET defaultTokens == [sign |-> <<"+">>, floatPart |-> <<"0">>,
                          eSign |-> <<"+">>, eIntPart |-> 0]
        toks == Assign(defaultTokens, userTokens)
        rawInt == BigInt(toks.sign, toks.intPart \o toks.floatPart)
        exponent == IF toks.eSign = <<"-">> THEN 0 - toks.eIntPart
                                            ELSE toks.eIntPart
    IN  EmalNumber(rawInt, Len(toks.floatPart) + exponent)

\* The default eIntPart "0" and a transformed eIntPart (a BigInt) are both
\* written into the template string; the model keeps the number.
fromTokens(userTokens) ==
    LET defaultTokens == [sign |-> <<"+">>, floatPart |-> <<"0">>,
                          eSign |-> <<"+">>, eIntPart |-> 0]
        toks == Assign(defaultTokens, userTokens)
        rawInt == BigInt(toks.sign, toks.intPart \o toks.floatPart)
        exponent == IF toks.eSign = <<"-">> THEN 0 - toks.eIntPart
                                            ELSE toks.eIntPart
    IN  EmalNumber(rawInt, Len(toks.floatPart) - exponent)

-----------------------------------------------------------------------------
(* number.js: class EmalNumber.  A BigInt is an integer; the operands are  *)
(* kept small enough for every intermediate value to stay below 2^31.      *)

ENUMBER_DEFAULT_DC == 2

ENUMBER_DEFAULT_DIV_OFFSET == ENUMBER_DEFAULT_DC

\* 10n ** n for n >= 0
RECURSIVE Pow10(_)
Pow10(n) == IF n <= 0 THEN 1 ELSE 10 * Pow10(n - 1)

\* the decimal digits of a natural number
RECURSIVE Digits(_)
Digits(n) ==
    IF n < 10 THEN <<ToString(n)>>
    ELSE Append(Digits(n \div 10), ToString(n % 10))

\* BigInt.prototype.toString(10)
IntToString(n) == IF n < 0 THEN <<"-">> \o Digits(0 - n) ELSE Digits(n)

\* the BigInt division, which truncates toward zero
TruncDiv(x, y) ==
    LET q == (IF x < 0 THEN 0 - x ELSE x) \div (IF y < 0 THEN 0 - y ELSE y)
    IN  IF (x < 0) = (y < 0) THEN q ELSE 0 - q

\* str.substr(start, length)
substrOf(str, first, length) ==
    LET last == IF first + length < Len(str) THEN first + length
                                             ELSE Len(str)
    IN  IF first >= Len(str) \/ length <= 0 THEN << >>
        ELSE SubSeq(str, first + 1, last)

\* a call that threw instead of returning a number
Thrown(name) == [constructor |-> name]

\* EmalNumber.fromString(numberStr): the machine after run().transform()
\* and the number, or the SyntaxError of BigInt() on the tokens of a run
\* that failed (no intPart, or token objects that were not transformed)
fromString(numberStr) ==
    LET runnerOutput == transform(numberSm, run(numberSm, numberStr))
    IN  [runnerOutput |-> runnerOutput,
         number |-> IF hasThrown(runnerOutput) THEN Thrown("SyntaxError")
                    ELSE fromTokens(runnerOutput.tokens)]

fromInt(n) == EmalNumber(n, 0)

\* the sign counted as a digit
rawLength_CountsSign(x) == Len(IntToString(x.rawInt))

\* x.rawLength()
rawLength(x) ==
    Len(IntToString(x.rawInt)) - (IF x.isNegative THEN 1 ELSE 0)

\* only the digits are aligned, the lengths left as they are
preprocessOp_LengthOnly(a, b) ==
    [aInt |-> a.rawInt, bInt |-> b.rawInt,
     oLen |-> IF a.decimalPlace > b.decimalPlace THEN a.decimalPlace
                                                 ELSE b.decimalPlace]

preprocessOp(a, b) ==
    LET aLen == a.decimalPlace
        bLen == b.decimalPlace
    IN  IF aLen > bLen
        THEN [aInt |-> a.rawInt, bInt |-> b.rawInt * Pow10(aLen - bLen),
              oLen |-> aLen]
        ELSE IF bLen > aLen
        THEN [aInt |-> a.rawInt * Pow10(bLen - aLen), bInt |-> b.rawInt,
              oLen |-> bLen]
        ELSE [aInt |-> a.rawInt, bInt |-> b.rawInt, oLen |-> aLen]

add(a, b) ==
    LET o == preprocessOp(a, b) IN EmalNumber(o.aInt + o.bInt, o.oLen)

sub(a, b) ==
    LET o == preprocessOp(a, b) IN EmalNumber(o.aInt - o.bInt, o.oLen)

mul(a, b) ==
    LET o == preprocessOp(a, b) IN EmalNumber(o.aInt * o.bInt, o.oLen * 2)

\* 10n ** offset throws a RangeError for a negative offset, and so does the
\* division by 0n
div(a, b) ==
    LET o == preprocessOp(a, b)
        offset == ENUMBER_DEFAULT_DIV_OFFSET + o.oLen
    IN  IF offset < 0 \/ o.bInt = 0 THEN Thrown("RangeError")
        ELSE EmalNumber(TruncDiv(o.aInt * Pow10(offset), o.bInt), offset)

\* x.toString(decimalCount), decimalCount being the number `decimals`: the
\* string, and x afterwards (its rawInt and decimalPlace are padded in
\* place; isNegative is the field the constructor set)
toString(x, decimals) ==
    LET neededLen == decimals + 2
        delta == IF neededLen > rawLength(x)
                 THEN neededLen - rawLength(x) ELSE 0
        this == [x EXCEPT !.rawInt = x.rawInt * Pow10(delta),
                          !.decimalPlace = x.decimalPlace + delta]
        intLen == rawLength(x) + delta
        rawInt == IF this.isNegative
                  THEN this.rawInt - 5 * Pow10(intLen - neededLen)
                  ELSE this.rawInt + 5 * Pow10(intLen - neededLen)
        exponent == intLen - this.decimalPlace - 1
        intStr == IntToString(rawInt)
        intPartStr == IF this.isNegative THEN substrOf(intStr, 0, 2)
                      ELSE substrOf(intStr, 0, 1)
        floatPartStr == IF this.isNegative
                        THEN substrOf(intStr, 2, decimals)
                        ELSE substrOf(intStr, 1, decimals)
    IN  [this |-> this,
         string |-> intPartStr \o <<",">> \o floatPartStr
                    \o (IF exponent # 0
                        THEN <<"e">> \o IntToString(exponent) ELSE << >>)]

-----------------------------------------------------------------------------
(* expression.test.js: MockNumber, the value type of the bindings.  Its    *)
(* `inner` is kept as the term the floating-point operations would compute *)
(* a number from.                                                          *)

Var(name) == [op |-> "var", name |-> name, args |-> << >>]

App(methodName, args) == [op |-> methodName, name |-> << >>, args |-> args]

\* no method was applied yet
NoCall == [methodName |-> "none", args |-> << >>]

\* no expression: the text was written as it is
NoSource == [op |-> "none", name |-> << >>, args |-> << >>]

\* no literal was parsed yet
NoLiteral == [sign |-> << >>, intPart |-> << >>, point |-> << >>,
              floatPart |-> << >>, e |-> << >>, eSign |-> << >>,
              eIntPart |-> << >>]

MockNumber(inner) == [constructor |-> "MockNumber", inner |-> inner]

MockMethods == [add |-> 2, sub |-> 2, mul |-> 2, div |-> 2, log10 |-> 1,
                max |-> 2]

-----------------------------------------------------------------------------
(* expression.js: class Expression *)

\* tokens.map(...) of the constructor
NumbersFromTokens(toks) ==
    [k \in DOMAIN toks |->
        IF toks[k].type = "number"
        THEN Assign(toks[k], [children |-> fromTokens(toks[k].children)])
        ELSE toks[k]]

Top(stack) == stack[Len(stack)]

Pop(stack) == SubSeq(stack, 1, Len(stack) - 1)

\* the comparison the wrong way round
HasPriorityOver_Inverted(op, currentPriority) ==
    EEXPR_OPERATORS[op.value].priority < currentPriority

\* the test of the operator case's while loop, once op is known to be a
\* token that is no bracket
HasPriorityOver(op, currentPriority) ==
    EEXPR_OPERATORS[op.value].priority > currentPriority

\* The operator case from `let op = acc.stack.pop()` to the push-back: the
\* output and the stack afterwards, or thrown when EEXPR_OPERATORS has no
\* entry for the popped token, whose .priority is then read of undefined.
RECURSIVE PopOperators(_, _, _)
PopOperators(out, stack, currentPriority) ==
    IF stack = << >>
    THEN [tokens |-> out, stack |-> stack, thrown |-> FALSE]
    ELSE LET op == Top(stack)
         IN  IF op.type = "bracket"
             THEN [tokens |-> out, stack |-> stack, thrown |-> FALSE]
             ELSE IF op.value \notin DOMAIN EEXPR_OPERATORS
             THEN [tokens |-> out, stack |-> Pop(stack), thrown |-> TRUE]
             ELSE IF HasPriorityOver(op, currentPriority)
             THEN PopOperators(Append(out, op), Pop(stack), currentPriority)
             ELSE [tokens |-> out, stack |-> stack, thrown |-> FALSE]

\* The closing case: pop to the output until an opening bracket was popped
\* or the stack is empty; nothing is pushed back.
RECURSIVE PopToOpening(_, _)
PopToOpening(out, stack) ==
    IF stack = << >>
    THEN [tokens |-> out, stack |-> stack, thrown |-> FALSE]
    ELSE IF Get(Top(stack), "bracketType") = "opening"
    THEN [tokens |-> out, stack |-> Pop(stack), thrown |-> FALSE]
    ELSE PopToOpening(Append(out, Top(stack)), Pop(stack))

\* a closing bracket or a comma is pushed as an opening bracket is
ShuntingYard_PushesClosing(a, cur) ==
    CASE cur.type \in {"number", "variable"} ->
            [tokens |-> Append(a.tokens, cur), stack |-> a.stack,
             thrown |-> FALSE]
      [] cur.type = "function" ->
            [tokens |-> a.tokens, stack |-> Append(a.stack, cur),
             thrown |-> FALSE]
      [] cur.type = "operator" ->
            LET currentPriority == EEXPR_OPERATORS[cur.value].priority
                popped == PopOperators(a.tokens, a.stack, currentPriority)
            IN  [popped EXCEPT !.stack = Append(popped.stack, cur)]
      [] cur.type \in {"bracket", "comma"} ->
            [tokens |-> a.tokens, stack |-> Append(a.stack, cur),
             thrown |-> FALSE]

\* the callback of the constructor's reduce
ShuntingYard(a, cur) ==
    CASE cur.type \in {"number", "variable"} ->
            [tokens |-> Append(a.tokens, cur), stack |-> a.stack,
             thrown |-> FALSE]
      [] cur.type = "function" ->
            [tokens |-> a.tokens, stack |-> Append(a.stack, cur),
             thrown |-> FALSE]
      [] cur.type = "operator" ->
            LET currentPriority == EEXPR_OPERATORS[cur.value].priority
                popped == PopOperators(a.tokens, a.stack, currentPriority)
            IN  [popped EXCEPT !.stack = Append(popped.stack, cur)]
      [] cur.type \in {"bracket", "comma"} ->
            IF Get(cur, "bracketType") = "opening"
            THEN [tokens |-> a.tokens, stack |-> Append(a.stack, cur),
                  thrown |-> FALSE]
            ELSE PopToOpening(a.tokens, a.stack)

\* rpnOutput.stack.reverse().forEach(op => rpnOutput.tokens.push(op))
RECURSIVE Reverse(_)
Reverse(seq) ==
    IF seq = << >> THEN << >>
    ELSE Append(Reverse(SubSeq(seq, 2, Len(seq))), seq[1])

DrainStack(a) == a.tokens \o Reverse(a.stack)

\* variables[tok.value]
Lookup(bindings, name) ==
    IF name \in DOMAIN bindings THEN bindings[name] ELSE undefinedValue

\* the removed elements in the order of popping, last pushed first
splice_Reversed(stack, count) ==
    LET n == IF count < Len(stack) THEN count ELSE Len(stack)
    IN  [removed |-> [k \in 1..n |-> stack[Len(stack) - k + 1]],
         rest |-> SubSeq(stack, 1, Len(stack) - n)]

\* acc.splice(-count, count): the removed elements and what is left
splice(stack, count) ==
    LET n == IF count < Len(stack) THEN count ELSE Len(stack)
    IN  [removed |-> SubSeq(stack, Len(stack) - n + 1, Len(stack)),
         rest |-> SubSeq(stack, 1, Len(stack) - n)]

\* method.apply(null, args) for a static method of MockNumber: each of
\* its parameters is read for its .inner, a missing or undefined one throws
\* and one that is no MockNumber has the inner undefined
ApplyMock(methodName, args) ==
    LET arity == MockMethods[methodName]
        given == SubSeq(args, 1, IF arity < Len(args) THEN arity
                                                      ELSE Len(args))
    IN  IF \/ Len(args) < arity
           \/ \E k \in 1..Len(given) : given[k] = undefinedValue
        THEN [thrown |-> TRUE, value |-> undefinedValue]
        ELSE [thrown |-> FALSE,
              value |-> MockNumber(App(methodName,
                            [k \in 1..arity |-> Get(given[k], "inner")]))]

\* EmalNumber[methodName](a, b), methodName one of the four operations.
\* log10 is applied to digit sequences in the section on log10: no
\* expression evaluated on EmalNumbers below has a function call.
Arithmetic(methodName, a, b) ==
    CASE methodName = "add" -> add(a, b)
      [] methodName = "sub" -> sub(a, b)
      [] methodName = "mul" -> mul(a, b)
      [] methodName = "div" -> div(a, b)

\* what a call of one of the four operations ended with
Applied(made) ==
    IF made.constructor = "EmalNumber"
    THEN [thrown |-> FALSE, value |-> made]
    ELSE [thrown |-> TRUE, value |-> undefinedValue]

\* method.apply(null, args) for a static method of EmalNumber.  There is
\* no EmalNumber.max: apply is read on undefined.  An operand that is
\* missing or undefined throws when preprocessOp reads its rawInt, one that
\* is no EmalNumber when its undefined rawInt meets a BigInt.
ApplyEmal(methodName, args) ==
    IF \/ methodName = "max"
       \/ Len(args) < 2
       \/ \E k \in 1..Len(args) : args[k].constructor # "EmalNumber"
    THEN [thrown |-> TRUE, value |-> undefinedValue]
    ELSE Applied(Arithmetic(methodName, args[1], args[2]))

\* new Unit(num, den, multiplier)
Unit(num, den, multiplier) ==
    [constructor |-> "Unit", userName |-> << >>,
     id |-> [num |-> num, den |-> den], multiplier |-> multiplier]

\* Unit[methodName](a, b).  The multipliers of the units below are 1, for
\* which the quotient of the division is exact.
UnitArithmetic(methodName, a, b) ==
    CASE methodName \in {"add", "sub"} ->
            Unit(a.id.num, a.id.den, a.multiplier)
      [] methodName = "mul" ->
            Unit(a.id.num * b.id.num, a.id.den * b.id.den,
                 a.multiplier * b.multiplier)
      [] methodName = "div" ->
            Unit(a.id.num * b.id.den, a.id.den * b.id.num,
                 a.multiplier \div b.multiplier)
      [] methodName = "log10" -> Unit(1, 1, 1)

\* method.apply(null, args) for a static method of Unit.  There is no
\* Unit.max; add, sub and log10 read their first parameter only, mul and
\* div throw on reading id.num of a second one that is no unit.
ApplyUnit(methodName, args) ==
    IF \/ methodName = "max"
       \/ /\ methodName \in {"mul", "div"}
          /\ (Len(args) < 2 \/ args[2].constructor # "Unit")
    THEN [thrown |-> TRUE, value |-> undefinedValue]
    ELSE [thrown |-> FALSE,
          value |-> UnitArithmetic(methodName, args[1],
                                   IF Len(args) < 2 THEN undefinedValue
                                   ELSE args[2])]

\* args[0].constructor[opMethodName].apply(null, args)
Apply(methodName, args) ==
    CASE args[1].constructor = "EmalNumber" -> ApplyEmal(methodName, args)
      [] args[1].constructor = "Unit" -> ApplyUnit(methodName, args)
      [] OTHER -> ApplyMock(methodName, args)

\* the method is resolved on the last argument
ApplyToStack_OnLast(stack, methodName, argumentCount) ==
    LET taken == splice(stack, argumentCount)
        args == taken.removed
    IN  IF args = << >> \/ args[Len(args)] = undefinedValue
        THEN [thrown |-> TRUE, called |-> FALSE, methodName |-> methodName,
              args |-> args, stack |-> taken.rest]
        ELSE LET applied == ApplyMock(methodName, args)
             IN  [thrown |-> applied.thrown, called |-> TRUE,
                  methodName |-> methodName, args |-> args,
                  stack |-> IF applied.thrown THEN taken.rest
                            ELSE Append(taken.rest, applied.value)]

\* The operator and function cases of evaluate: splice, resolve the method
\* on the first argument's constructor, apply.  called is whether apply()
\* was reached.
ApplyToStack(stack, methodName, argumentCount) ==
    LET taken == splice(stack, argumentCount)
        args == taken.removed
    IN  IF args = << >> \/ args[1] = undefinedValue
        THEN [thrown |-> TRUE, called |-> FALSE, methodName |-> methodName,
              args |-> args, stack |-> taken.rest]
        ELSE LET applied == Apply(methodName, args)
             IN  [thrown |-> applied.thrown, called |-> TRUE,
                  methodName |-> methodName, args |-> args,
                  stack |-> IF applied.thrown THEN taken.rest
                            ELSE Append(taken.rest, applied.value)]

\* the callback of evaluate's reduce
EvaluateToken(stack, tok, bindings) ==
    CASE tok.type = "number" ->
            [thrown |-> FALSE, called |-> FALSE, methodName |-> "none",
             args |-> << >>,
             stack |-> Append(stack, tok.children)]
      [] tok.type = "variable" ->
            [thrown |-> FALSE, called |-> FALSE, methodName |-> "none",
             args |-> << >>,
             stack |-> Append(stack, Lookup(bindings, tok.value))]
      [] tok.type = "operator" ->
            ApplyToStack(stack, EEXPR_OPERATORS[tok.value].methodName, 2)
      [] tok.type = "function" ->
            ApplyToStack(stack, EEXPR_FUNCTIONS[tok.value].methodName,
                         EEXPR_FUNCTIONS[tok.value].argumentCount)
      [] OTHER ->
            [thrown |-> FALSE, called |-> FALSE, methodName |-> "none",
             args |-> << >>,
             stack |-> stack]

\* reduce(...)[0]
First(stack) == IF stack = << >> THEN undefinedValue ELSE stack[1]

\* evaluate's reduce from a stack on, up to the token that throws
RECURSIVE EvaluateAll(_, _, _)
RECURSIVE EvaluateNext(_, _, _)
EvaluateAll(stack, toks, bindings) ==
    IF toks = << >> THEN [thrown |-> FALSE, value |-> First(stack)]
    ELSE EvaluateNext(EvaluateToken(stack, Head(toks), bindings),
                      Tail(toks), bindings)

\* the tokens after one whose callback ended with made
EvaluateNext(made, toks, bindings) ==
    IF made.thrown THEN [thrown |-> TRUE, value |-> undefinedValue]
    ELSE EvaluateAll(made.stack, toks, bindings)

\* expr.evaluate(bindings): the value returned, or thrown set
evaluate(expr, bindings) == EvaluateAll(<< >>, expr.tokens, bindings)

\* tokens.reduce(...) of the constructor, up to the token that throws
RECURSIVE ConvertAll(_, _)
ConvertAll(a, toks) ==
    IF toks = << >> \/ a.thrown THEN a
    ELSE ConvertAll(ShuntingYard(a, Head(toks)), Tail(toks))

\* the object the constructor returns, or the TypeError thrown
NewObject(rpnOutput) ==
    IF rpnOutput.thrown THEN [constructor |-> "TypeError"]
    ELSE [constructor |-> "Expression", tokens |-> DrainStack(rpnOutput)]

\* new Expression(expressionStr)
Expression(expressionStr) ==
    NewObject(ConvertAll([tokens |-> << >>, stack |-> << >>,
                          thrown |-> FALSE],
                         NumbersFromTokens(
                             run(expressionSm, expressionStr).tokens)))

-----------------------------------------------------------------------------
(* stateMachine.js: transform() of any of the three machines *)

\* what a call of a transformer ended with: the value returned, or thrown
\* set when it threw
Outcome(made) ==
    [value |-> made, thrown |-> made.constructor = "TypeError"]

\* transformer(this.tokens[tokenName])
Transformer(name, tok) ==
    IF name = "toExpression" THEN Outcome(Expression(tok.value))
    ELSE [value |-> ApplyTransformer(name, tok), thrown |-> FALSE]

\* the loop over Object.entries(this.transformers) from its i-th entry on:
\* the tokens afterwards, and whether a transformer threw
RECURSIVE TransformEntries(_, _, _)
RECURSIVE TransformEntry(_, _, _, _)
TransformEntries(sm, toks, i) ==
    IF i > Len(sm.order) THEN [tokens |-> toks, thrown |-> FALSE]
    ELSE IF sm.order[i] \notin DOMAIN toks
    THEN TransformEntries(sm, toks, i + 1)
    ELSE TransformEntry(sm, toks, i,
                        Transformer(sm.transformers[sm.order[i]],
                                    toks[sm.order[i]]))

\* this.tokens[tokenName] = transformer(this.tokens[tokenName]), out being
\* what the call ended with, and the entries after it
TransformEntry(sm, toks, i, out) ==
    IF out.thrown THEN [tokens |-> toks, thrown |-> TRUE]
    ELSE TransformEntries(sm, [toks EXCEPT ![sm.order[i]] = out.value],
                          i + 1)

\* the machine transform() leaves, done being what its loop ended with
TransformEnd(m, done) ==
    [m |-> [m EXCEPT !.tokens = done.tokens,
                     !.currentState = IF done.thrown THEN m.currentState
                                      ELSE MS.TRANSFORMED],
     thrown |-> done.thrown]

\* only a machine that was transformed already is returned as it is
TransformCall_AfterError(sm, m) ==
    IF m.currentState = MS.TRANSFORMED THEN [m |-> m, thrown |-> FALSE]
    ELSE TransformEnd(m, TransformEntries(sm, m.tokens, 1))

\* transform(): the machine afterwards, and whether the call threw
TransformCall(sm, m) ==
    IF m.currentState >= MS.TRANSFORMED THEN [m |-> m, thrown |-> FALSE]
    ELSE TransformEnd(m, TransformEntries(sm, m.tokens, 1))

-----------------------------------------------------------------------------
(* The expression lexer, one character-loop iteration at a time *)

\* longest text drawn character by character
MaxLen == 4

LexAlphabet == {"a", "2", ",", ";", "+", "(", ")", " ", "e"}

RECURSIVE TextsUpTo(_, _)
TextsUpTo(alphabet, n) ==
    IF n = 0 THEN {<< >>}
    ELSE LET shorter == TextsUpTo(alphabet, n - 1)
         IN  shorter \cup {Append(t, ch) : t \in shorter, ch \in alphabet}

\* "2,5 * max(a, b)", "log(cH3O)", "a * -2.5e-2", "max(a; b)", "a - 2",
\* "a -2", "a-2", and identifiers around the function names: "log", "lo",
\* "logx", "max a", "log+2", "logx(", "alog)"
DocumentedTexts ==
    {<<"2", ",", "5", " ", "*", " ", "m", "a", "x", "(", "a", ",", " ",
       "b", ")">>,
     <<"l", "o", "g", "(", "c", "H", "3", "O", ")">>,
     <<"a", " ", "*", " ", "-", "2", ".", "5", "e", "-", "2">>,
     <<"m", "a", "x", "(", "a", ";", " ", "b", ")">>,
     <<"a", " ", "-", " ", "2">>,
     <<"a", " ", "-", "2">>,
     <<"a", "-", "2">>,
     <<"l", "o", "g">>,
     <<"l", "o">>,
     <<"l", "o", "g", "x">>,
     <<"m", "a", "x", " ", "a">>,
     <<"l", "o", "g", "+", "2">>,
     <<"l", "o", "g", "x", "(">>,
     <<"a", "l", "o", "g", ")">>}

LexInputs == TextsUpTo(LexAlphabet, MaxLen) \cup DocumentedTexts

\* run()'s closure, gathered from the variables
Closure ==
    [type |-> expressionSm.type, input |-> input, position |-> position,
     currentState |-> currentState, tokens |-> tokens,
     currentToken |-> currentToken, isExponent |-> FALSE,
     delegations |-> delegations, ret |-> parsingState]

Resume(r) ==
    /\ position' = r.position
    /\ currentState' = r.currentState
    /\ parsingState' = r.ret
    /\ tokens' = r.tokens
    /\ currentToken' = r.currentToken
    /\ delegations' = r.delegations
    /\ UNCHANGED <<dataVars, input, exprVars, numberVars>>

\* run(input) up to the first test of the loop condition
RunBegin ==
    /\ currentState = MS.WAITING
    /\ \E str \in LexInputs : input' = str
    /\ position' = 0
    /\ currentState' = MS.RUNNING
    /\ parsingState' = expressionSm.startState
    /\ tokens' = << >>
    /\ currentToken' = -1
    /\ delegations' = << >>
    /\ UNCHANGED <<dataVars, exprVars, numberVars>>

\* a loop iteration that calls exprToken
ExprTokenStep ==
    /\ currentState = MS.RUNNING
    /\ parsingState = "exprToken"
    /\ \E r \in {Iterate(Closure, parsingState)} : Resume(r)

\* a loop iteration that calls variableOrFunction
VariableOrFunctionStep ==
    /\ currentState = MS.RUNNING
    /\ parsingState = "variableOrFunction"
    /\ \E r \in {Iterate(Closure, parsingState)} : Resume(r)

InitLex ==
    /\ input = << >>
    /\ position = 0
    /\ currentState = MS.WAITING
    /\ parsingState = expressionSm.startState
    /\ tokens = << >>
    /\ currentToken = -1
    /\ delegations = << >>
    /\ pc = "idle"
    /\ reduceIndex = 0
    /\ acc = [tokens |-> << >>, stack |-> << >>]
    /\ thisTokens = << >>
    /\ variables = << >>
    /\ evalAcc = << >>
    /\ result = undefinedValue
    /\ lastCall = NoCall
    /\ source = NoSource
    /\ machine = "none"
    /\ isExponent = FALSE
    /\ transformCalls = 0
    /\ literal = NoLiteral
    /\ operands = << >>
    /\ opName = "none"
    /\ number = undefinedValue
    /\ decimalCount = 0
    /\ rendered = << >>
    /\ exception = "none"
    /\ codePc = "none"
    /\ codeStr = << >>
    /\ lineIndex = 0
    /\ lines = << >>
    /\ userData = << >>
    /\ generatedData = << >>
    /\ columnHeap = << >>
    /\ columns = << >>
    /\ rows = << >>
    /\ managerThrown = FALSE
    /\ numberHeap = << >>
    /\ asGiven = << >>
    /\ logFrame = NoFrame
    /\ returned = 0

NextLex == RunBegin \/ ExprTokenStep \/ VariableOrFunctionStep

SpecLex == InitLex /\ [][NextLex]_vars

-----------------------------------------------------------------------------
(* Expressions as written: the texts an Expression is constructed from *)

\* most operators and calls in an enumerated expression
MaxNodes == 2

\* most tokens in an enumerated token sequence
MaxTokens == 3

Operands == {<<"a">>, <<"b">>}

BinaryMethods == {"add", "sub", "mul", "div"}

\* An expression is a term: a variable, a binary operation, a call of log
\* or max, or a bracketed expression ("group").
RECURSIVE ExpressionsOfSize(_)
ExpressionsOfSize(n) ==
    IF n = 0 THEN {Var(x) : x \in Operands}
    ELSE {App(m, <<e>>) : m \in {"log10", "group"},
                          e \in ExpressionsOfSize(n - 1)}
         \cup UNION {{App(m, <<l, r>>) : m \in BinaryMethods \cup {"max"},
                                         l \in ExpressionsOfSize(k),
                                         r \in ExpressionsOfSize(n - 1 - k)}
                     : k \in 0..(n - 1)}

\* "a + b * a + (a - b)", "a + max(b, c) * d", "(a + b) / c", "log(x)"
DocumentedExpressions ==
    {App("add", <<App("add", <<Var(<<"a">>),
                               App("mul", <<Var(<<"b">>), Var(<<"a">>)>>)>>),
                  App("group", <<App("sub", <<Var(<<"a">>),
                                              Var(<<"b">>)>>)>>)>>),
     App("add", <<Var(<<"a">>),
                  App("mul", <<App("max", <<Var(<<"b">>), Var(<<"c">>)>>),
                               Var(<<"d">>)>>)>>),
     App("div", <<App("group", <<App("add", <<Var(<<"a">>),
                                              Var(<<"b">>)>>)>>),
                  Var(<<"c">>)>>),
     App("log10", <<Var(<<"x">>)>>)}

\* (x o1 y) o2 z, the brackets written whether needed or not
BracketedExpressions ==
    {App(m2, <<App("group", <<App(m1, <<Var(x), Var(y)>>)>>), Var(z)>>) :
        m1 \in BinaryMethods, m2 \in BinaryMethods,
        x \in Operands, y \in Operands, z \in Operands}

Expressions ==
    UNION {ExpressionsOfSize(n) : n \in 0..MaxNodes}
    \cup BracketedExpressions \cup DocumentedExpressions

\* the operator character of a binary method, and its standard precedence
OperatorOf(methodName) ==
    CHOOSE o \in DOMAIN EEXPR_OPERATORS :
        EEXPR_OPERATORS[o].methodName = methodName

Precedence(e) ==
    IF e.op \in BinaryMethods THEN EEXPR_OPERATORS[OperatorOf(e.op)].priority
    ELSE 3

\* The token texts of an expression in infix notation, with the brackets
\* standard precedence and left-associativity require.
RECURSIVE Infix(_)
Bracketed(e, needed) ==
    IF needed THEN <<<<"(">>>> \o Infix(e) \o <<<<")">>>> ELSE Infix(e)

Infix(e) ==
    CASE e.op = "var" -> <<e.name>>
      [] e.op = "group" -> Bracketed(e.args[1], TRUE)
      [] e.op = "log10" -> <<LOG>> \o Bracketed(e.args[1], TRUE)
      [] e.op = "max" ->
            <<MAX, <<"(">>>> \o Infix(e.args[1]) \o <<<<",">>>>
            \o Infix(e.args[2]) \o <<<<")">>>>
      [] OTHER ->
            Bracketed(e.args[1], Precedence(e.args[1]) < Precedence(e))
            \o <<OperatorOf(e.op)>>
            \o Bracketed(e.args[2], Precedence(e.args[2]) <= Precedence(e))

\* The value of an expression by standard infix evaluation, over operands
\* that are each bound to a MockNumber of their own name.
RECURSIVE Meaning(_)
Meaning(e) ==
    CASE e.op = "var" -> e
      [] e.op = "group" -> Meaning(e.args[1])
      [] OTHER -> App(e.op, [k \in DOMAIN e.args |-> Meaning(e.args[k])])

TokenTexts ==
    Operands \cup DOMAIN EEXPR_OPERATORS \cup EEXPR_FUNCTION_NAMES
    \cup {<<"(">>, <<")">>, <<",">>}

\* "max(a; b)", "max[a, b]"
DocumentedTokens ==
    {<<MAX, <<"(">>, <<"a">>, <<";">>, <<"b">>, <<")">>>>,
     <<MAX, <<"[">>, <<"a">>, <<",">>, <<"b">>, <<"]">>>>}

\* "2 * ( a + 2 )", "a + 2 * b", "max ( 2 ; a )": literals among the tokens
LiteralTokens ==
    {<<<<"2">>, <<"*">>, <<"(">>, <<"a">>, <<"+">>, <<"2">>, <<")">>>>,
     <<<<"a">>, <<"+">>, <<"2">>, <<"*">>, <<"b">>>>,
     <<MAX, <<"(">>, <<"2">>, <<";">>, <<"a">>, <<")">>>>}

TokenSequences ==
    TextsUpTo(TokenTexts, MaxTokens) \cup DocumentedTokens
        \cup LiteralTokens

\* the token texts written one after the other, a space in between
RECURSIVE Text(_)
Text(texts) ==
    IF texts = << >> THEN << >>
    ELSE IF Len(texts) = 1 THEN texts[1]
    ELSE texts[1] \o <<" ">> \o Text(SubSeq(texts, 2, Len(texts)))

\* every name bound to a MockNumber of its own
Bind(names) == [n \in names |-> MockNumber(Var(n))]

AllNames == {<<"a">>, <<"b">>, <<"c">>, <<"d">>, <<"x">>}

Bindings == {Bind({}), Bind({<<"a">>}), Bind(AllNames)}

-----------------------------------------------------------------------------
(* new Expression(text) and evaluate(variables), one reduce step at a time *)

\* The constructor up to the reduce: the lexer runs, numbers are built.
Construct(str, written) ==
    \E runnerOutput \in {run(expressionSm, str)} :
        /\ input' = str
        /\ source' = written
        /\ position' = runnerOutput.position
        /\ currentState' = runnerOutput.currentState
        /\ parsingState' = runnerOutput.ret
        /\ tokens' = NumbersFromTokens(runnerOutput.tokens)
        /\ currentToken' = runnerOutput.currentToken
        /\ delegations' = runnerOutput.delegations
        /\ pc' = "convert"
        /\ UNCHANGED <<dataVars,
                       numberVars, reduceIndex, acc, thisTokens, variables,
                       evalAcc,
                       result, lastCall>>

\* new Expression(text), the text being an expression in infix notation
NewExpression ==
    /\ pc = "idle"
    /\ \E e \in Expressions : Construct(Text(Infix(e)), e)

\* new Expression(text), the text being any sequence of tokens
NewFromTokens ==
    /\ pc = "idle"
    /\ \E ts \in TokenSequences : Construct(Text(ts), NoSource)

\* the constructor's reduce is at a token of one of types
Converting(types) ==
    /\ pc = "convert"
    /\ reduceIndex < Len(tokens)
    /\ tokens[reduceIndex + 1].type \in types

\* one call of the constructor's reduce callback
ConvertStep ==
    /\ \E after \in {ShuntingYard(acc, tokens[reduceIndex + 1])} :
           /\ acc' = [tokens |-> after.tokens, stack |-> after.stack]
           /\ pc' = IF after.thrown THEN "failed" ELSE "convert"
    /\ reduceIndex' = reduceIndex + 1
    /\ UNCHANGED <<dataVars, lexVars, numberVars,
                   thisTokens, variables, evalAcc, result, lastCall,
                   source>>

ConvertOperand ==
    /\ Converting({"number", "variable"})
    /\ ConvertStep

ConvertFunction ==
    /\ Converting({"function"})
    /\ ConvertStep

ConvertOperator ==
    /\ Converting({"operator"})
    /\ ConvertStep

ConvertBracket ==
    /\ Converting({"bracket", "comma"})
    /\ ConvertStep

\* the end of the constructor
Drain ==
    /\ pc = "convert"
    /\ reduceIndex = Len(tokens)
    /\ thisTokens' = DrainStack(acc)
    /\ acc' = [tokens |-> DrainStack(acc), stack |-> Reverse(acc.stack)]
    /\ pc' = "constructed"
    /\ UNCHANGED <<dataVars, lexVars, numberVars,
                   reduceIndex, variables, evalAcc, result,
                   lastCall, source>>

\* the operand stack of the call before is the initial value of the reduce
EvaluateBegin_KeepsStack ==
    /\ pc \in {"constructed", "returned", "thrown"}
    /\ \E b \in Bindings : variables' = b
    /\ evalAcc' = evalAcc
    /\ reduceIndex' = 0
    /\ result' = undefinedValue
    /\ lastCall' = NoCall
    /\ pc' = "evaluate"
    /\ UNCHANGED <<dataVars, lexVars, numberVars,
                   acc, thisTokens, source>>

\* evaluate(variables) is called
EvaluateBegin ==
    /\ pc \in {"constructed", "returned", "thrown"}
    /\ \E b \in Bindings : variables' = b
    /\ evalAcc' = << >>
    /\ reduceIndex' = 0
    /\ result' = undefinedValue
    /\ lastCall' = NoCall
    /\ pc' = "evaluate"
    /\ UNCHANGED <<dataVars, lexVars, numberVars,
                   acc, thisTokens, source>>

\* evaluate's reduce is at a token of one of types
Evaluating(types) ==
    /\ pc = "evaluate"
    /\ reduceIndex < Len(thisTokens)
    /\ thisTokens[reduceIndex + 1].type \in types

\* one call of evaluate's reduce callback
EvaluateStep ==
    /\ \E after \in {EvaluateToken(evalAcc, thisTokens[reduceIndex + 1],
                                    variables)} :
           /\ evalAcc' = after.stack
           /\ pc' = IF after.thrown THEN "thrown" ELSE "evaluate"
           /\ lastCall' = IF after.called
                          THEN [methodName |-> after.methodName,
                                args |-> after.args]
                          ELSE lastCall
    /\ reduceIndex' = reduceIndex + 1
    /\ UNCHANGED <<dataVars, lexVars, numberVars,
                   acc, thisTokens, variables, result, source>>

EvaluateOperand ==
    /\ Evaluating({"number", "variable"})
    /\ EvaluateStep

EvaluateOperator ==
    /\ Evaluating({"operator"})
    /\ EvaluateStep

EvaluateFunction ==
    /\ Evaluating({"function"})
    /\ EvaluateStep

\* a token the switch has no case for
EvaluateOther ==
    /\ Evaluating({"bracket", "comma"})
    /\ EvaluateStep

EvaluateReturn ==
    /\ pc = "evaluate"
    /\ reduceIndex = Len(thisTokens)
    /\ result' = First(evalAcc)
    /\ pc' = "returned"
    /\ UNCHANGED <<dataVars, lexVars, numberVars,
                   reduceIndex, acc, thisTokens, variables, evalAcc,
                   lastCall, source>>

Init == InitLex

Next ==
    \/ NewExpression \/ NewFromTokens
    \/ ConvertOperand \/ ConvertFunction \/ ConvertOperator
    \/ ConvertBracket \/ Drain
    \/ EvaluateBegin \/ EvaluateOperand \/ EvaluateOperator
    \/ EvaluateFunction \/ EvaluateOther \/ EvaluateReturn

Spec == Init /\ [][Next]_vars

-----------------------------------------------------------------------------
(* Any of the three machines: run(), one loop iteration at a time, then    *)
(* transform()                                                             *)

Machines ==
    [numberSm |-> numberSm, lineSm |-> lineSm, expressionSm |-> expressionSm]

\* most calls of transform() after one run
MaxTransforms == 2

NumberAlphabet == {"2", "-", ",", "e", "a"}

LineAlphabet == {"l", " ", "=", "_", "2"}

\* "-2.5e-2", "8,5888", "1e2e3"
DocumentedNumbers ==
    {<<"-", "2", ".", "5", "e", "-", "2">>,
     <<"8", ",", "5", "8", "8", "8">>,
     <<"1", "e", "2", "e", "3">>}

\* "let x = a", "let y_m = 2,5", "l x=log(a)+a"
DocumentedLines ==
    {<<"l", "e", "t", " ", "x", " ", "=", " ", "a">>,
     <<"l", "e", "t", " ", "y", "_", "m", " ", "=", " ", "2", ",", "5">>,
     <<"l", " ", "x", "=", "l", "o", "g", "(", "a", ")", "+", "a">>}

MachineInputs(name) ==
    CASE name = "numberSm" ->
            TextsUpTo(NumberAlphabet, MaxLen) \cup DocumentedNumbers
      [] name = "lineSm" ->
            TextsUpTo(LineAlphabet, MaxLen) \cup DocumentedLines
      [] name = "expressionSm" -> LexInputs

\* run()'s closure, gathered from the variables
MachineClosure ==
    [type |-> Machines[machine].type, input |-> input,
     position |-> position, currentState |-> currentState,
     tokens |-> tokens, currentToken |-> currentToken,
     isExponent |-> isExponent, delegations |-> delegations,
     ret |-> parsingState]

\* sm.run(input) up to the first test of the loop condition
MachineRun ==
    /\ machine = "none"
    /\ currentState = MS.WAITING
    /\ \E name \in DOMAIN Machines :
          \E str \in MachineInputs(name) :
              /\ machine' = name
              /\ input' = str
              /\ parsingState' = Machines[name].startState
    /\ position' = 0
    /\ currentState' = MS.RUNNING
    /\ tokens' = << >>
    /\ currentToken' = -1
    /\ delegations' = << >>
    /\ isExponent' = FALSE
    /\ transformCalls' = 0
    /\ UNCHANGED <<dataVars, exprVars, literal, operands, opName, number,
                   decimalCount, rendered, exception>>

\* the cursor is left where it was
MachineIterate_KeepsCursor ==
    /\ machine # "none"
    /\ currentState = MS.RUNNING
    /\ \E r \in {Iterate(MachineClosure, parsingState)} :
          /\ position' = position
          /\ currentState' = r.currentState
          /\ parsingState' = r.ret
          /\ tokens' = r.tokens
          /\ currentToken' = r.currentToken
          /\ delegations' = r.delegations
          /\ isExponent' = r.isExponent
    /\ UNCHANGED <<dataVars, input, exprVars, machine, transformCalls, literal,
                   operands, opName, number, decimalCount, rendered,
                   exception>>

\* one iteration of run()'s character loop
MachineIterate ==
    /\ machine # "none"
    /\ currentState = MS.RUNNING
    /\ \E r \in {Iterate(MachineClosure, parsingState)} :
          /\ position' = r.position
          /\ currentState' = r.currentState
          /\ parsingState' = r.ret
          /\ tokens' = r.tokens
          /\ currentToken' = r.currentToken
          /\ delegations' = r.delegations
          /\ isExponent' = r.isExponent
    /\ UNCHANGED <<dataVars, input, exprVars, machine, transformCalls, literal,
                   operands, opName, number, decimalCount, rendered,
                   exception>>

\* sm.transform() once run() returned
MachineTransform ==
    /\ machine # "none"
    /\ currentState \in {MS.PARSED, MS.TRANSFORMED, MS.ERROR}
    /\ exception = "none"
    /\ transformCalls < MaxTransforms
    /\ \E out \in {TransformCall(Machines[machine],
                                 [tokens |-> tokens,
                                  currentState |-> currentState])} :
          /\ tokens' = out.m.tokens
          /\ currentState' = out.m.currentState
          /\ exception' = IF out.thrown THEN "TypeError" ELSE "none"
    /\ transformCalls' = transformCalls + 1
    /\ UNCHANGED <<dataVars, input, position, parsingState, currentToken,
                   delegations, exprVars, machine, isExponent, literal,
                   operands, opName, number, decimalCount, rendered>>

NextMachine == MachineRun \/ MachineIterate \/ MachineTransform

SpecMachine == InitLex /\ [][NextMachine]_vars

-----------------------------------------------------------------------------
(* EmalNumber: one number, from fromString or from the constructor, and   *)
(* the calls of its toString                                               *)

\* most integer digits and most fractional digits of an enumerated literal
MaxIntDigits == 2

MaxFracDigits == 2

\* largest decimalCount handed to toString
MaxDecimals == 2

\* toString(3), toString(4)
DocumentedDecimals == {3, 4}

LiteralDigits == {"0", "9"}

ExponentDigits == {"1", "2"}

\* a literal by the parts it is written from
Literal(sgn, int, pnt, frac, exp, expSgn, expInt) ==
    [sign |-> sgn, intPart |-> int, point |-> pnt, floatPart |-> frac,
     e |-> exp, eSign |-> expSgn, eIntPart |-> expInt]

\* "8,5888", "9,999", "-9,999", "4.56e-2", "1,07", "1e5", "5e-1", "2",
\* "8,539e-4", "8.539", "2,5", "1,45", "-1,45", "0.05", "2,", "2e5"
DocumentedLiterals ==
    {Literal(<< >>, <<"8">>, <<",">>, <<"5", "8", "8", "8">>, << >>, << >>,
             << >>),
     Literal(<< >>, <<"9">>, <<",">>, <<"9", "9", "9">>, << >>, << >>,
             << >>),
     Literal(<<"-">>, <<"9">>, <<",">>, <<"9", "9", "9">>, << >>, << >>,
             << >>),
     Literal(<< >>, <<"4">>, <<".">>, <<"5", "6">>, <<"e">>, <<"-">>,
             <<"2">>),
     Literal(<< >>, <<"1">>, <<",">>, <<"0", "7">>, << >>, << >>, << >>),
     Literal(<< >>, <<"1">>, << >>, << >>, <<"e">>, << >>, <<"5">>),
     Literal(<< >>, <<"5">>, << >>, << >>, <<"e">>, <<"-">>, <<"1">>),
     Literal(<< >>, <<"2">>, << >>, << >>, << >>, << >>, << >>),
     Literal(<< >>, <<"8">>, <<",">>, <<"5", "3", "9">>, <<"e">>, <<"-">>,
             <<"4">>),
     Literal(<< >>, <<"8">>, <<".">>, <<"5", "3", "9">>, << >>, << >>,
             << >>),
     Literal(<< >>, <<"2">>, <<",">>, <<"5">>, << >>, << >>, << >>),
     Literal(<< >>, <<"1">>, <<",">>, <<"4", "5">>, << >>, << >>, << >>),
     Literal(<<"-">>, <<"1">>, <<",">>, <<"4", "5">>, << >>, << >>, << >>),
     Literal(<< >>, <<"0">>, <<".">>, <<"0", "5">>, << >>, << >>, << >>),
     Literal(<< >>, <<"2">>, <<",">>, << >>, << >>, << >>, << >>),
     Literal(<< >>, <<"2">>, << >>, << >>, <<"e">>, << >>, <<"5">>)}

\* sign, integer digits, optional decimal point with fractional digits,
\* optional exponent with its sign
Literals ==
    {Literal(sg, ip, pt, fp, ee, es, ei) :
        sg \in {<< >>, <<"-">>, <<"+">>},
        ip \in TextsUpTo(LiteralDigits, MaxIntDigits) \ {<< >>},
        pt \in {<< >>, <<",">>, <<".">>},
        fp \in TextsUpTo(LiteralDigits, MaxFracDigits),
        ee \in {<< >>, <<"e">>},
        es \in {<< >>, <<"-">>, <<"+">>},
        ei \in {<< >>} \cup {<<d>> : d \in ExponentDigits}}

WellFormed(l) ==
    /\ l.point = << >> => l.floatPart = << >>
    /\ l.e = << >> => (l.eSign = << >> /\ l.eIntPart = << >>)
    /\ l.e # << >> => l.eIntPart # << >>

WrittenLiterals == {l \in Literals : WellFormed(l)} \cup DocumentedLiterals

LiteralText(l) ==
    l.sign \o l.intPart \o l.point \o l.floatPart \o l.e \o l.eSign
    \o l.eIntPart

\* "", "-", "2e", "a", "2e-"
RejectedTexts ==
    {<< >>, <<"-">>, <<"2", "e">>, <<"a">>, <<"2", "e", "-">>}

\* largest magnitude and largest count of decimal places, either sign, of
\* an enumerated number
MaxMagnitude == 3

MaxPlaces == 3

Magnitudes ==
    (0 - MaxMagnitude)..MaxMagnitude
    \cup {15, 25, 99, 999, 9999, 0 - 9999, 0 - 15}

\* 4.56e-2, 1,07, 1e5 and 2e5 as fromString returns them
DocumentedOperands ==
    {EmalNumber(456, 4), EmalNumber(107, 2), EmalNumber(10, 0 - 4),
     EmalNumber(20, 0 - 4)}

Numbers ==
    {EmalNumber(n, p) : n \in Magnitudes,
                        p \in (0 - MaxPlaces)..MaxPlaces}
    \cup DocumentedOperands

\* EmalNumber.fromString(numberStr)
FromString ==
    /\ opName = "none"
    /\ \E l \in WrittenLiterals \cup {NoLiteral} :
          \E numberStr \in IF l = NoLiteral THEN RejectedTexts
                                            ELSE {LiteralText(l)} :
              \E out \in {fromString(numberStr)} :
                  /\ literal' = l
                  /\ input' = numberStr
                  /\ position' = out.runnerOutput.position
                  /\ currentState' = out.runnerOutput.currentState
                  /\ parsingState' = out.runnerOutput.ret
                  /\ tokens' = out.runnerOutput.tokens
                  /\ currentToken' = out.runnerOutput.currentToken
                  /\ isExponent' = out.runnerOutput.isExponent
                  /\ number' = out.number
                  /\ exception' =
                        IF out.number.constructor = "EmalNumber"
                        THEN "none" ELSE out.number.constructor
    /\ opName' = "fromString"
    /\ operands' = << >>
    /\ rendered' = << >>
    /\ decimalCount' = 0
    /\ UNCHANGED <<dataVars, delegations, exprVars, machine, transformCalls>>

\* new EmalNumber(rawInt, decimalPlace)
NewEmalNumber ==
    /\ opName = "none"
    /\ \E x \in Numbers : number' = x
    /\ opName' = "EmalNumber"
    /\ operands' = << >>
    /\ literal' = NoLiteral
    /\ rendered' = << >>
    /\ decimalCount' = 0
    /\ exception' = "none"
    /\ UNCHANGED <<dataVars,
                   lexVars, exprVars, machine, isExponent, transformCalls>>

\* number.toString(decimalCount), decimalCount a number or left out.  The
\* padding of a zero magnitude adds decimal places at every call: the calls
\* stop once the count has grown past every enumerated one.
Render ==
    /\ number.constructor = "EmalNumber"
    /\ number.decimalPlace <= MaxPlaces + MaxDecimals + 2
    /\ \E decimals \in (0..MaxDecimals) \cup {ENUMBER_DEFAULT_DC}
                        \cup DocumentedDecimals :
          \E out \in {toString(number, decimals)} :
              /\ decimalCount' = decimals
              /\ rendered' = out.string
              /\ number' = out.this
    /\ operands' = <<number>>
    /\ opName' = "toString"
    /\ exception' = "none"
    /\ UNCHANGED <<dataVars,
                   lexVars, exprVars, machine, isExponent, transformCalls,
                   literal>>

NextNumber == FromString \/ NewEmalNumber \/ Render

SpecNumber == InitLex /\ [][NextNumber]_vars

-----------------------------------------------------------------------------
(* The static operations of EmalNumber on two numbers. *)

\* the digits every magnitude of that length is exact with
ExactDigits == Len(Digits(2147483647)) - 1

\* the digits of a's magnitude once preprocessOp aligned it with b
AlignedDigits(a, b) ==
    Len(Digits(IF a.rawInt < 0 THEN 0 - a.rawInt ELSE a.rawInt))
    + (IF b.decimalPlace > a.decimalPlace
       THEN b.decimalPlace - a.decimalPlace ELSE 0)

\* the result of a static operation: returned, or the exception it threw
Returned(name, a, b, out) ==
    /\ operands' = <<a, b>>
    /\ opName' = name
    /\ number' = IF out.constructor = "EmalNumber" THEN out
                 ELSE undefinedValue
    /\ exception' = IF out.constructor = "EmalNumber" THEN "none"
                    ELSE out.constructor
    /\ UNCHANGED <<dataVars,
                   lexVars, exprVars, machine, isExponent, transformCalls,
                   literal, decimalCount, rendered>>

\* EmalNumber.add(a, b)
Add ==
    /\ opName = "none"
    /\ \E a \in Numbers, b \in Numbers :
          /\ AlignedDigits(a, b) <= ExactDigits
          /\ AlignedDigits(b, a) <= ExactDigits
          /\ Returned("add", a, b, add(a, b))

\* EmalNumber.sub(a, b)
Sub ==
    /\ opName = "none"
    /\ \E a \in Numbers, b \in Numbers :
          /\ AlignedDigits(a, b) <= ExactDigits
          /\ AlignedDigits(b, a) <= ExactDigits
          /\ Returned("sub", a, b, sub(a, b))

\* EmalNumber.mul(a, b)
Mul ==
    /\ opName = "none"
    /\ \E a \in Numbers, b \in Numbers :
          /\ AlignedDigits(a, b) + AlignedDigits(b, a) <= ExactDigits
          /\ Returned("mul", a, b, mul(a, b))

\* EmalNumber.div(a, b)
Div ==
    /\ opName = "none"
    /\ \E a \in Numbers, b \in Numbers :
          /\ AlignedDigits(b, a) <= ExactDigits
          /\ AlignedDigits(a, b) + ENUMBER_DEFAULT_DIV_OFFSET
               + (IF a.decimalPlace > b.decimalPlace THEN a.decimalPlace
                                                     ELSE b.decimalPlace)
               <= ExactDigits
          /\ Returned("div", a, b, div(a, b))

NextArith == Add \/ Sub \/ Mul \/ Div

SpecArith == InitLex /\ [][NextArith]_vars

-----------------------------------------------------------------------------
(* Properties *)

TokenValues(toks) == [k \in DOMAIN toks |-> toks[k].value]

TokenTypes(toks) == [k \in DOMAIN toks |-> toks[k].type]

\* the k-th token but for its type
Untyped(toks, k) == [key \in DOMAIN toks[k] \ {"type"} |-> toks[k][key]]

Additive == {o \in DOMAIN EEXPR_OPERATORS : EEXPR_OPERATORS[o].priority = 1}

Multiplicative ==
    {o \in DOMAIN EEXPR_OPERATORS : EEXPR_OPERATORS[o].priority = 2}

\* the variable names and the methods an expression uses
RECURSIVE Names(_)
Names(e) ==
    IF e.op = "var" THEN {e.name}
    ELSE UNION {Names(e.args[k]) : k \in DOMAIN e.args}

RECURSIVE Methods(_)
Methods(e) ==
    IF e.op = "var" THEN {}
    ELSE {e.op} \cup UNION {Methods(e.args[k]) : k \in DOMAIN e.args}

\* evaluate() is over: it returned or it threw
Evaluated == pc \in {"returned", "thrown"}

\* C1: equal-precedence operators are left-associative: x op1 y op2 z is
\* converted to the postfix sequence x y op1 z op2 and evaluates as
\* (x op1 y) op2 z.
C1_LeftAssociative ==
    pc \in {"constructed", "returned"} =>
        \A x \in Operands, y \in Operands, z \in Operands :
            \A o1 \in DOMAIN EEXPR_OPERATORS, o2 \in DOMAIN EEXPR_OPERATORS :
                (/\ EEXPR_OPERATORS[o1].priority = EEXPR_OPERATORS[o2].priority
                 /\ input = Text(<<x, o1, y, o2, z>>))
                => /\ TokenValues(thisTokens) = <<x, y, o1, z, o2>>
                   /\ (pc = "returned" /\ variables = Bind(AllNames))
                      => result = MockNumber(
                            App(EEXPR_OPERATORS[o2].methodName,
                                <<App(EEXPR_OPERATORS[o1].methodName,
                                      <<Var(x), Var(y)>>),
                                  Var(z)>>))

\* C2: for a well-formed expression of variables, binary operators, brackets
\* and calls of max whose conversion completed, evaluation with every
\* variable bound returns the value of standard infix evaluation.
C2_CallsEvaluateAsInfix ==
    (/\ Evaluated
     /\ source # NoSource
     /\ "max" \in Methods(source)
     /\ Methods(source) \subseteq BinaryMethods \cup {"max", "group"}
     /\ Names(source) \subseteq DOMAIN variables)
    => /\ pc = "returned"
       /\ result = MockNumber(Meaning(source))

\* C3: the conversion of a well-formed expression completes: an operator
\* token met while a function token is on top of the stack does not make the
\* constructor fail.
C3_OperatorAfterFunctionConverts ==
    source # NoSource => pc # "failed"

\* C4: evaluate does not return when a variable token's name is absent from
\* the bindings.
C4_UnboundVariableSignalled ==
    pc = "returned" =>
        \A k \in DOMAIN thisTokens :
            thisTokens[k].type = "variable"
            => thisTokens[k].value \in DOMAIN variables

\* C5: higher-precedence operators bind tighter: with a additive and m
\* multiplicative, x a y m z is converted to x y z m a and x m y a z to
\* x y m z a; a bracketed (x o1 y) is emitted completely before the operator
\* o2 that follows its closing bracket.
C5_PrecedenceBinds ==
    pc = "constructed" =>
        \A x \in Operands, y \in Operands, z \in Operands :
            /\ \A a \in Additive, m \in Multiplicative :
                /\ input = Text(<<x, a, y, m, z>>)
                   => TokenValues(thisTokens) = <<x, y, z, m, a>>
                /\ input = Text(<<x, m, y, a, z>>)
                   => TokenValues(thisTokens) = <<x, y, m, z, a>>
            /\ \A o1 \in DOMAIN EEXPR_OPERATORS,
                  o2 \in DOMAIN EEXPR_OPERATORS :
                input = Text(<<<<"(">>, x, o1, y, <<")">>, o2, z>>)
                => TokenValues(thisTokens) = <<x, y, o1, z, o2>>

C5_Witness ==
    /\ pc = "constructed"
    /\ input = Text(<<<<"a">>, <<"+">>, <<"b">>, <<"*">>, <<"a">>>>)
    /\ TokenValues(thisTokens)
       = <<<<"a">>, <<"b">>, <<"a">>, <<"*">>, <<"+">>>>

\* C6: the token sequence of a constructed Expression holds no bracket and
\* no comma token.
C6_NoBracketNoComma ==
    pc = "constructed" =>
        \A k \in DOMAIN thisTokens :
            thisTokens[k].type \notin {"bracket", "comma"}

\* a call of log or of max on operands
SimpleCalls ==
    {App("max", <<Var(x), Var(y)>>) : x \in Operands, y \in Operands}
    \cup {App("log10", <<Var(x)>>) : x \in AllNames}

\* C7: a function token pops its declared arity and applies the named
\* operation to the operands in source order: max(a; b) evaluates to
\* max(a, b) and log(x) to log10(x), the result alone left on the stack.
C7_FunctionApplied ==
    Evaluated =>
        /\ (source \in SimpleCalls /\ Names(source) \subseteq DOMAIN variables)
           => /\ pc = "returned"
              /\ result = MockNumber(Meaning(source))
              /\ evalAcc = <<result>>
              /\ lastCall.args
                 = [k \in DOMAIN source.args |-> MockNumber(source.args[k])]
        /\ \A ts \in DocumentedTokens :
              (input = Text(ts) /\ variables = Bind(AllNames))
              => /\ pc = "returned"
                 /\ evalAcc = <<result>>
                 /\ result = MockNumber(App("max", <<Var(<<"a">>),
                                                     Var(<<"b">>)>>))

C7_Witness ==
    /\ pc = "returned"
    /\ source = App("max", <<Var(<<"a">>), Var(<<"b">>)>>)
    /\ variables = Bind(AllNames)
    /\ lastCall.methodName = "max"

\* C8: evaluate returns only if exactly one entry is left on the operand
\* stack once the whole sequence is consumed.
C8_SoleResult ==
    pc = "returned" => Len(evalAcc) = 1

\* C9: an operation is never called with fewer arguments than its arity.
C9_NoMissingArgument ==
    lastCall.methodName # "none"
    => Len(lastCall.args) = MockMethods[lastCall.methodName]

-----------------------------------------------------------------------------
(* Properties of the lexer *)

\* the character at 0-based position i lies in what a delegation consumed
Consumed(i) ==
    \E k \in DOMAIN delegations :
        /\ delegations[k].at <= i
        /\ i < delegations[k].at + delegations[k].consumed

\* an optional sign and one or more digits
IntegerDigits(str) ==
    LET digits == IF str # << >> /\ isSign(str[1])
                  THEN SubSeq(str, 2, Len(str)) ELSE str
    IN  /\ digits # << >>
        /\ \A k \in DOMAIN digits : isDigit(digits[k])

\* position i comes right after the integer digits of a literal that the
\* number tokenizer was delegated to read
FollowsIntegerDigits(i) ==
    \E k \in DOMAIN delegations :
        /\ delegations[k].at < i
        /\ IntegerDigits(SubSeq(input, delegations[k].at + 1, i))

\* the separator characters among the first n that no delegation consumed
RECURSIVE Separators(_)
Separators(n) ==
    IF n = 0 THEN << >>
    ELSE IF isCommaSeparator(input[n]) /\ ~Consumed(n - 1)
    THEN Append(Separators(n - 1), <<input[n]>>)
    ELSE Separators(n - 1)

IsCommaToken(tok) == tok.type = "comma"

\* C10: a comma is consumed as a decimal point exactly when it comes right
\* after the integer digits of a literal the number tokenizer is reading;
\* every other comma and every semicolon gives one comma token.  The tokens
\* of "2,5 * max(a, b)" are number, operator, function, opening bracket,
\* variable, comma, variable, closing bracket.
C10_CommaDisambiguation ==
    currentState = MS.PARSED =>
        /\ \A i \in 0..(Len(input) - 1) :
              /\ input[i + 1] = "," => (Consumed(i) <=> FollowsIntegerDigits(i))
              /\ input[i + 1] = ";" => ~Consumed(i)
        /\ TokenValues(SelectSeq(tokens, IsCommaToken))
           = Separators(Len(input))
        /\ input = <<"2", ",", "5", " ", "*", " ", "m", "a", "x", "(", "a",
                     ",", " ", "b", ")">>
           => /\ TokenTypes(tokens)
                 = <<"number", "operator", "function", "bracket", "variable",
                     "comma", "variable", "bracket">>
              /\ tokens[1].children = [intPart |-> <<"2">>,
                                       floatPart |-> <<"5">>]
              /\ TokenValues(SubSeq(tokens, 2, 8))
                 = <<<<"*">>, MAX, <<"(">>, <<"a">>, <<",">>, <<"b">>,
                     <<")">>>>
              /\ tokens[4].bracketType = "opening"
              /\ tokens[8].bracketType = "closing"

C10_Witness ==
    /\ currentState = MS.PARSED
    /\ input = <<"2", ",", "5", " ", "*", " ", "m", "a", "x", "(", "a",
                 ",", " ", "b", ")">>
    /\ Consumed(1)
    /\ ~Consumed(11)

\* the characters a numeric literal is written with
IsNumberChar(ch) ==
    isDigit(ch) \/ isSign(ch) \/ isDecimalPoint(ch) \/ ch \in {"e", "E"}

\* C11: a successful delegation started at cursor p, whose nested machine
\* consumed k characters before signalling end, appends exactly one token
\* carrying the nested tokens as children and leaves the machine running
\* with its cursor at p + k, so that the next character passed to the state
\* function is the first one the nested machine did not consume (or the end
\* of the input): none is skipped, none is consumed twice.  The tokens there
\* were are kept; the last of them may have got its type in the same call
\* (an identifier that the sign of the literal ends).
C11_DelegationAdvances ==
    [][Len(delegations') > Len(delegations) =>
          LET nested == transform(numberSm,
                                  run(numberSm, substr(input, position)))
              k == nested.position - 1
          IN  /\ ~hasThrown(nested)
              /\ k >= 1
              /\ \A i \in 1..k : IsNumberChar(input[position + i])
              /\ Len(delegations') = Len(delegations) + 1
              /\ Len(tokens') = Len(tokens) + 1
              /\ \A j \in 1..(Len(tokens) - 1) : tokens'[j] = tokens[j]
              /\ tokens # << >>
                    => Untyped(tokens', Len(tokens))
                          = Untyped(tokens, Len(tokens))
              /\ tokens'[Len(tokens')]
                    = [type |-> "number", children |-> nested.tokens,
                       value |-> << >>]
              /\ input' = input
              /\ position' = position + k
              /\ position' <= Len(input)
              /\ currentState' = MS.RUNNING
              /\ parsingState' = "exprToken"]_vars

C11_Witness ==
    /\ currentState = MS.RUNNING
    /\ delegations # << >>
    /\ LET last == delegations[Len(delegations)]
       IN  /\ last.at >= 1
           /\ last.consumed >= 2
           /\ position = last.at + last.consumed
           /\ position < Len(input)
    /\ tokens # << >>
    /\ tokens[Len(tokens)].type = "number"

-----------------------------------------------------------------------------
(* Properties of run() and transform() of any machine *)

\* C12: when the state function called at the end of the input (cursor =
\* input length) signals neither end nor failure, the run finishes in the
\* failure state; a run finishes successfully only by a state function
\* signalling end.
C12_EndOfInputFails ==
    [][currentState = MS.RUNNING =>
          /\ (position = Len(input) /\ parsingState' \notin {"end", "nok"})
                => hasThrown([currentState |-> currentState'])
          /\ currentState' = MS.PARSED => parsingState' = "end"
          /\ currentState' \in {MS.RUNNING, MS.PARSED, MS.ERROR}]_vars

C12_Witness ==
    /\ machine = "lineSm"
    /\ currentState = MS.ERROR
    /\ position = Len(input)
    /\ parsingState = "keyword"
    /\ input = <<"l">>

\* the tokens once every registered transformer was applied to the token
\* stored under its key
Transformed(sm, toks) ==
    [k \in DOMAIN toks |->
        IF k \in DOMAIN sm.transformers
        THEN Transformer(sm.transformers[k], toks[k]).value
        ELSE toks[k]]

\* C13: after a successful run, however many times transform() was called
\* (once or more), each registered transformer was applied exactly once to
\* the token run() stored under its key, the tokens with no registered
\* transformer are as run() left them, and the machine is TRANSFORMED.
C13_TransformOnce ==
    (machine # "none" /\ transformCalls >= 1) =>
        LET sm == Machines[machine]
            ran == run(sm, input)
        IN  ~hasThrown(ran) =>
                /\ tokens = Transformed(sm, ran.tokens)
                /\ currentState = MS.TRANSFORMED

-----------------------------------------------------------------------------
(* Properties of EmalNumber *)

Abs(n) == IF n < 0 THEN 0 - n ELSE n

\* The rendering of the value m * 10^-p at d decimals: the magnitude rounded
\* half-up to d + 1 significant digits, one digit before the comma, and the
\* exponent that keeps the value, written unless it is zero.
Rendering(m, p, d) ==
    LET n == Abs(m)
        L == Len(Digits(n))
        q == IF L <= d + 1 THEN n * Pow10(d + 1 - L)
             ELSE (n + 5 * Pow10(L - d - 2)) \div Pow10(L - d - 1)
        carried == q = Pow10(d + 1)
        mantissa == Digits(IF carried THEN Pow10(d) ELSE q)
        E == IF m = 0 THEN 0
             ELSE L - p - 1 + (IF carried THEN 1 ELSE 0)
    IN  (IF m < 0 THEN <<"-">> ELSE << >>)
        \o <<mantissa[1]>> \o <<",">>
        \o (IF m = 0 THEN [k \in 1..d |-> "0"]
            ELSE SubSeq(mantissa, 2, d + 1))
        \o (IF E # 0 THEN <<"e">> \o IntToString(E) ELSE << >>)

\* C14: for every number v with decimalPlaces >= 0 (zero, negative values
\* and values whose rounding carries into a new leading digit included) and
\* every decimalCount d >= 0, toString(d) returns one leading digit, a comma,
\* exactly d digits and the exponent E (left out iff E = 0) such that
\* mantissa * 10^E is v rounded half-up in magnitude to d + 1 significant
\* digits.
C14_RendersRounded ==
    (opName = "toString" /\ operands[1].decimalPlace >= 0) =>
        rendered = Rendering(operands[1].rawInt, operands[1].decimalPlace,
                             decimalCount)

\* the exponent a literal is written with
SignedExponent(l) ==
    IF l.eIntPart = << >> THEN 0
    ELSE IF l.eSign = <<"-">> THEN 0 - toBigInt(l.eIntPart)
    ELSE toBigInt(l.eIntPart)

\* C15: for every literal the number parser accepts, decimalPlaces is the
\* number of fractional digits written minus the signed exponent ("2" has
\* 0 decimalPlaces, "5e-1" has 1).
C15_DecimalPlacesOfLiteral ==
    (opName = "fromString" /\ literal # NoLiteral) =>
        /\ exception = "none"
        /\ number.decimalPlace
             = Len(literal.floatPart) - SignedExponent(literal)

\* C16: decimalPlaces is non-negative for every number parsed from an
\* accepted literal, a positive exponent such as "1e5" included.
C16_DecimalPlacesNonNegative ==
    (opName = "fromString" /\ exception = "none") =>
        number.decimalPlace >= 0

\* [-]D,F or [-]D,FeN: D a non-zero digit, F one or more digits, N a
\* non-zero exponent written without plus sign and without leading zero
Canonical(l) ==
    /\ l.sign \in {<< >>, <<"-">>}
    /\ Len(l.intPart) = 1
    /\ l.intPart # <<"0">>
    /\ l.point # << >>
    /\ Len(l.floatPart) >= 1
    /\ l.e # << >> =>
          /\ l.eSign \in {<< >>, <<"-">>}
          /\ l.eIntPart[1] # "0"

\* C20: for a canonical scientific string s with d fractional digits,
\* fromString(s).toString(d) is s, a "." of s written as ",".
C20_ParseRenderRoundTrip ==
    (/\ opName = "toString"
     /\ Canonical(literal)
     /\ operands[1] = fromString(LiteralText(literal)).number
     /\ decimalCount = Len(literal.floatPart)) =>
        rendered = LiteralText([literal EXCEPT !.point = <<",">>])

C20_Witness ==
    /\ opName = "toString"
    /\ literal = Literal(<<"-">>, <<"9">>, <<".">>, <<"0", "9">>, <<"e">>,
                         <<"-">>, <<"2">>)
    /\ operands[1] = fromString(LiteralText(literal)).number
    /\ decimalCount = 2
    /\ rendered = <<"-", "9", ",", "0", "9", "e", "-", "2">>

\* the larger decimalPlace of the two operands
MaxDecimalPlace ==
    IF operands[1].decimalPlace > operands[2].decimalPlace
    THEN operands[1].decimalPlace ELSE operands[2].decimalPlace

\* the magnitude of operand k at MaxDecimalPlace decimal places
Scaled(k) ==
    operands[k].rawInt * Pow10(MaxDecimalPlace - operands[k].decimalPlace)

\* C17: add(a, b) and sub(a, b) return decimalPlaces D, the larger of the
\* operands' decimalPlaces, and the magnitude a.magnitude * 10^(D -
\* a.decimalPlaces) +/- b.magnitude * 10^(D - b.decimalPlaces), which is
\* the value a + b (a - b) exactly; add(a, b) is add(b, a).
C17_AddSubAligned ==
    opName \in {"add", "sub"} =>
        /\ exception = "none"
        /\ number.decimalPlace = MaxDecimalPlace
        /\ opName = "add" =>
              /\ number.rawInt = Scaled(1) + Scaled(2)
              /\ number = add(operands[2], operands[1])
        /\ opName = "sub" => number.rawInt = Scaled(1) - Scaled(2)

C17_Witness ==
    /\ opName = "add"
    /\ operands = <<EmalNumber(456, 4), EmalNumber(107, 2)>>
    /\ number = EmalNumber(11156, 4)

\* C18: mul(a, b) returns the magnitude a.magnitude * b.magnitude and the
\* decimalPlaces a.decimalPlaces + b.decimalPlaces, also when the operands'
\* decimalPlaces differ.
C18_MulSumsPlaces ==
    opName = "mul" =>
        /\ exception = "none"
        /\ number.rawInt = operands[1].rawInt * operands[2].rawInt
        /\ number.decimalPlace
             = operands[1].decimalPlace + operands[2].decimalPlace

\* C19: for b non-zero, div(a, b) returns decimalPlaces P = 2 + the larger
\* of the operands' decimalPlaces and the magnitude q that is a / b * 10^P
\* truncated toward zero: |a/b * 10^P - q| < 1 and |q| <= |a/b * 10^P|,
\* with the sign of a / b.
C19_DivTruncates ==
    (opName = "div" /\ operands[2].rawInt # 0) =>
        /\ exception = "none"
        /\ number.decimalPlace = 2 + MaxDecimalPlace
        /\ LET N == Scaled(1) * Pow10(2 + MaxDecimalPlace)
               q == number.rawInt
           IN  /\ Abs(N - q * Scaled(2)) < Abs(Scaled(2))
               /\ Abs(q * Scaled(2)) <= Abs(N)
               /\ q # 0 => (q < 0) = ((N < 0) # (Scaled(2) < 0))

\* C22: v.toString(d) leaves the stored magnitude and decimalPlaces of v as
\* they were before the call, for every number v and every decimalCount d,
\* also when v has fewer than d + 2 digits.
C22_RenderingKeepsNumber ==
    opName = "toString" =>
        /\ number.rawInt = operands[1].rawInt
        /\ number.decimalPlace = operands[1].decimalPlace

-----------------------------------------------------------------------------
(* Properties of the expression lexer on signs *)

\* the 0-based positions before i that hold no whitespace
WrittenBefore(i) == {j \in 0..(i - 1) : ~isWhitespace(input[j + 1])}

\* a literal can start at 0-based position i: at the beginning of the
\* input, or after an operator, an opening bracket or a separator that is
\* not part of a literal itself
LiteralCanStart(i) ==
    \/ WrittenBefore(i) = {}
    \/ LET last == CHOOSE j \in WrittenBefore(i) :
                       \A k \in WrittenBefore(i) : k <= j
       IN  /\ ~Consumed(last)
           /\ \/ isOperator(input[last + 1])
              \/ isOpeningBracket(input[last + 1])
              \/ isCommaSeparator(input[last + 1])

\* C28: a sign is folded into a numeric literal only where a literal can
\* start; a "+" or "-" right after an operand, with or without whitespace
\* in between, is an operator token even when a digit follows it: "a - 2",
\* "a -2" and "a-2" all give variable, operator, number.
C28_SignAfterOperandIsOperator ==
    currentState = MS.PARSED =>
        /\ \A k \in DOMAIN delegations :
              isSign(input[delegations[k].at + 1])
                  => LiteralCanStart(delegations[k].at)
        /\ input \in {<<"a", " ", "-", " ", "2">>, <<"a", " ", "-", "2">>,
                      <<"a", "-", "2">>}
              => TokenTypes(tokens) = <<"variable", "operator", "number">>

\* C30: the run of the expression state machine never ends in the failure
\* state, whatever the input: the empty string, bare signs and malformed
\* literals such as "2e" included.
C30_ExpressionLexerTotal == currentState # MS.ERROR

C30_Witness ==
    /\ currentState = MS.PARSED
    /\ input = <<"2", "e">>

-----------------------------------------------------------------------------
(* Properties of the number tokenizer's keyed tokens *)

\* s is the beginning of t
IsPrefix(s, t) == Len(s) <= Len(t) /\ SubSeq(t, 1, Len(s)) = s

\* C29: in one run of the number tokenizer a keyed token, once opened, is
\* never opened again: its text only grows.  A second e after the exponent
\* digits, as in "1e2e3", does not reopen eIntPart and overwrite its text.
C29_TokenOpenedOnce ==
    [][(machine = "numberSm" /\ currentState = MS.RUNNING) =>
          \A k \in DOMAIN tokens :
              /\ k \in DOMAIN tokens'
              /\ IsPrefix(tokens[k].value, tokens'[k].value)]_vars

-----------------------------------------------------------------------------
(* code.js: class CodeBlock *)

\* str.split(separator), the separator being one character
RECURSIVE split(_, _)
split(str, separator) ==
    IF \A k \in DOMAIN str : str[k] # separator THEN <<str>>
    ELSE LET at == CHOOSE k \in DOMAIN str :
                       /\ str[k] = separator
                       /\ \A j \in 1..(k - 1) : str[j] # separator
         IN  <<SubSeq(str, 1, at - 1)>>
                 \o split(SubSeq(str, at + 1, Len(str)), separator)

\* most lines of a code string
MaxLines == 3

\* "let a0 = 2", "" and "\tlet y = x / a0" (code.test.js), a line that
\* shadows a name of the user, one without equal sign, one of another
\* keyword, and one whose expression has an operator after a function call
CodeLines ==
    {<<"l", "e", "t", " ", "a", "0", " ", "=", " ", "2">>,
     << >>,
     <<"\t", "l", "e", "t", " ", "y", " ", "=", " ", "x", " ", "/", " ", "a",
       "0">>,
     <<"l", "e", "t", " ", "x", " ", "=", " ", "y">>,
     <<"l", "e", "t", " ", "x">>,
     <<"s", "e", "t", " ", "y", " ", "=", " ", "x">>,
     <<"l", "e", "t", " ", "z", " ", "=", " ", "l", "o", "g", "(", "x", ")",
       " ", "+", " ", "1">>}

\* the code strings of at most n lines
RECURSIVE CodeStrings(_)
CodeStrings(n) ==
    IF n = 1 THEN CodeLines
    ELSE LET shorter == CodeStrings(n - 1)
         IN  shorter \cup {c \o <<"\n">> \o l : c \in shorter, l \in CodeLines}

\* the rows handed to evaluate: 1.2 and 2 as fromString makes them
UserRows ==
    {<< >>,
     (<<"x">> :> EmalNumber(12, 1)),
     (<<"x">> :> EmalNumber(12, 1)) @@ (<<"y">> :> EmalNumber(20, 1)),
     (<<"x">> :> EmalNumber(12, 1)) @@ (<<"a", "0">> :> EmalNumber(30, 1))}

\* new CodeBlock(codeStr) up to the first call of the reduce callback
NewCodeBlock ==
    /\ codePc = "none"
    /\ \E c \in CodeStrings(MaxLines) : codeStr' = c
    /\ codePc' = "reduce"
    /\ lineIndex' = 0
    /\ lines' = << >>
    /\ UNCHANGED <<lexVars, exprVars, numberVars, managerVars, logVars,
                   userData,
                   generatedData>>

\* what the constructor is left with after a callback of its reduce:
\* runnerOutput is what lineSm.run(line).transform() ended with
ReducedLine(runnerOutput, kept, last) ==
    IF runnerOutput.thrown THEN [pc |-> "thrown", lines |-> kept]
    ELSE [pc |-> IF last THEN "constructed" ELSE "reduce",
          lines |-> IF hasThrown(runnerOutput.m) THEN kept
                    ELSE Append(kept, runnerOutput.m.tokens)]

\* one call of the callback of the constructor's reduce; the constructor
\* returns after the last one
ReduceLine ==
    /\ codePc = "reduce"
    /\ \E made \in {ReducedLine(
                       TransformCall(lineSm,
                           run(lineSm,
                               split(codeStr, "\n")[lineIndex + 1])),
                       lines,
                       lineIndex + 1 = Len(split(codeStr, "\n")))} :
          /\ codePc' = made.pc
          /\ lines' = made.lines
    /\ lineIndex' = lineIndex + 1
    /\ UNCHANGED <<lexVars, exprVars, numberVars, managerVars, logVars,
                   codeStr,
                   userData, generatedData>>

\* evaluate(userData) up to the first call of the forEach callback
CodeEvaluate ==
    /\ codePc = "constructed"
    /\ \E row \in UserRows : userData' = row
    /\ generatedData' = << >>
    /\ lineIndex' = 0
    /\ codePc' = IF lines = << >> THEN "returned" ELSE "forEach"
    /\ UNCHANGED <<lexVars, exprVars, numberVars, managerVars, logVars,
                   codeStr,
                   lines>>

\* the user's values over the generated ones
Data_UserWins(user, generated) == Assign(generated, user)

\* Object.assign({}, userData, generatedData)
Data(user, generated) == Assign(user, generated)

\* generatedData after the callback on a line, made being what
\* line.expression.evaluate(data) ended with
Generated(line, made, generated) ==
    (Get(line, "variable") :> made.value) @@ generated

\* what forEach's callback does with a line: the two objects afterwards
\* (userData is only read, as the second argument of Object.assign)
EvaluatedLine(line, user, generated) ==
    IF line.keyword # VARIABLE_KW
    THEN [thrown |-> FALSE, userData |-> user, generatedData |-> generated]
    ELSE IF "expression" \notin DOMAIN line
    THEN [thrown |-> TRUE, userData |-> user, generatedData |-> generated]
    ELSE LET made == evaluate(line.expression, Data(user, generated))
         IN  [thrown |-> made.thrown, userData |-> user,
              generatedData |-> IF made.thrown THEN generated
                                ELSE Generated(line, made, generated)]

\* one call of the callback of evaluate's forEach; evaluate returns
\* generatedData after the last one
EvaluateLine ==
    /\ codePc = "forEach"
    /\ \E made \in {EvaluatedLine(lines[lineIndex + 1], userData,
                                  generatedData)} :
          /\ generatedData' = made.generatedData
          /\ userData' = made.userData
          /\ codePc' = IF made.thrown THEN "evaluateThrown"
                       ELSE IF lineIndex + 1 = Len(lines) THEN "returned"
                       ELSE "forEach"
    /\ lineIndex' = lineIndex + 1
    /\ UNCHANGED <<lexVars, exprVars, numberVars, managerVars, logVars,
                   codeStr,
                   lines>>

NextCode == NewCodeBlock \/ ReduceLine \/ CodeEvaluate \/ EvaluateLine

SpecCode == InitLex /\ [][NextCode]_vars

\* the tokenizer finishes on the line without failure
Finishes(line) == run(lineSm, line).currentState = MS.PARSED

\* the lines of the code string on which it does, in the order of the source
FinishedLines == SelectSeq(split(codeStr, "\n"), Finishes)

\* C24: once new CodeBlock(codeStr) has ended, it has returned a block
\* whose lines are the tokens of exactly the lines of codeStr on which the
\* line tokenizer finishes without failure, in the order of the source; a
\* line without equal sign, the empty line included, is none of them,
\* whatever the other lines are.
C24_KeepsFinishedLines ==
    codePc \notin {"none", "reduce"} =>
        /\ codePc # "thrown"
        /\ Len(lines) = Len(FinishedLines)
        /\ \A k \in DOMAIN lines :
              lines[k] = TransformCall(lineSm,
                             run(lineSm, FinishedLines[k])).m.tokens
        /\ \A k \in DOMAIN split(codeStr, "\n") :
              (\A j \in DOMAIN split(codeStr, "\n")[k] :
                    split(codeStr, "\n")[k][j] # "=")
                  => ~Finishes(split(codeStr, "\n")[k])

\* what a line reads under a name: the generated value if there is one,
\* else the user's
Seen(name, user, generated) ==
    IF name \in DOMAIN generated THEN generated[name]
    ELSE IF name \in DOMAIN user THEN user[name]
    ELSE undefinedValue

\* the generated values after the first n kept lines, each let line
\* evaluated on what the lines before it left
RECURSIVE GeneratedBy(_, _, _)
GeneratedBy(n, kept, user) ==
    IF n = 0 THEN << >>
    ELSE LET before == GeneratedBy(n - 1, kept, user)
         IN  IF kept[n].keyword # <<"l", "e", "t">> THEN before
             ELSE (kept[n].variable :>
                      evaluate(kept[n].expression,
                               [name \in DOMAIN user \cup DOMAIN before |->
                                   Seen(name, user, before)]).value)
                  @@ before

\* C25: a call of evaluate's callback that returns leaves the user data as
\* they were and the generated data those of the let lines up to this one,
\* taken in the order of the source, each evaluated on the user data
\* overlaid with the values generated by the lines before it.
C25_EvaluatesInOrder ==
    [][codePc = "forEach" =>
          /\ userData' = userData
          /\ codePc' # "evaluateThrown" =>
                generatedData' = GeneratedBy(lineIndex + 1, lines,
                                             userData)]_vars

\* "let a0 = 2", "let x = y", "let y = x / a0" on x = 1.2 and y = 2: x is
\* generated as 2, and the last line reads that x, not the user's
C25_Witness ==
    /\ codePc = "returned"
    /\ Len(lines) = 3
    /\ <<"x">> \in DOMAIN userData /\ userData[<<"x">>] = EmalNumber(12, 1)
    /\ <<"x">> \in DOMAIN generatedData
    /\ generatedData[<<"x">>] = EmalNumber(20, 1)
    /\ <<"y">> \in DOMAIN generatedData
    /\ generatedData[<<"y">>] = EmalNumber(1000, 3)

-----------------------------------------------------------------------------
(* index.js: class Column and class EmalManager *)

\* new Column(name); the properties set later are absent
Column(name) ==
    [name |-> name, isComputed |-> FALSE, dependents |-> << >>]

\* the elements of a sequence in the order of their first occurrences
RECURSIVE Unique(_)
Unique(seq) ==
    IF seq = << >> THEN << >>
    ELSE LET rest == Unique(SubSeq(seq, 1, Len(seq) - 1))
         IN  IF \E k \in DOMAIN rest : rest[k] = seq[Len(seq)] THEN rest
             ELSE Append(rest, seq[Len(seq)])

IsVariable(tok) == tok.type = "variable"

\* column.dependsOn()
dependsOn(column) ==
    IF ~column.isComputed THEN << >>
    ELSE LET named == SelectSeq(column.expression.tokens, IsVariable)
         IN  Unique([k \in DOMAIN named |-> named[k].value])

\* column.computeValueFor(data): what the call ended with
computeValueFor(column, data) ==
    IF ~column.isComputed THEN [thrown |-> FALSE, value |-> 0]
    ELSE evaluate(column.expression, data)

\* manager.getColumn(name): the reference found, 0 for undefined
getColumn(heap, cols, name) ==
    IF \A k \in DOMAIN cols : heap[cols[k]].name # name THEN 0
    ELSE cols[CHOOSE k \in DOMAIN cols :
                 /\ heap[cols[k]].name = name
                 /\ \A j \in 1..(k - 1) : heap[cols[j]].name # name]

\* the manager after a call: its Column objects, its columns and rows, and
\* whether the call threw
Manager(heap, cols, rws, thrown) ==
    [columnHeap |-> heap, columns |-> cols, rows |-> rws, thrown |-> thrown]

\* addUserColumn(name, unit, uncertainty), unit being a Unit or undefined
\* (setUnit stores what is no string as it is) and uncertainty left out
addUserColumn(heap, cols, rws, name, givenUnit) ==
    Manager(Append(heap, Column(name) @@ [unit |-> givenUnit,
                                          uncertainty |-> undefined]),
            Append(cols, Len(heap) + 1), rws, FALSE)

\* The forEach of addComputedColumn from the i-th name of dependsOn on,
\* column being the reference of the new column: the Column objects
\* afterwards, dependsOnUnits, and whether getColumn found no column
RECURSIVE NotifyDependees(_, _, _, _, _, _)
NotifyDependees(heap, cols, names, i, column, units) ==
    IF i > Len(names)
    THEN [columnHeap |-> heap, units |-> units, thrown |-> FALSE]
    ELSE LET dependsOnColumn == getColumn(heap, cols, names[i])
         IN  IF dependsOnColumn = 0
             THEN [columnHeap |-> heap, units |-> units, thrown |-> TRUE]
             ELSE NotifyDependees(
                      [heap EXCEPT ![dependsOnColumn].dependents =
                                       Append(@, column)],
                      cols, names, i + 1, column,
                      (names[i] :> heap[dependsOnColumn].unit) @@ units)

\* addComputedColumn after its forEach: the unit is computed and set, the
\* column pushed
ComputedColumnEnd(notified, cols, rws, column) ==
    IF notified.thrown
    THEN Manager(notified.columnHeap, cols, rws, TRUE)
    ELSE LET made == computeValueFor(notified.columnHeap[column],
                                     notified.units)
         IN  IF made.thrown
             THEN Manager(notified.columnHeap, cols, rws, TRUE)
             ELSE Manager([notified.columnHeap EXCEPT ![column] =
                              @ @@ [unit |-> made.value]],
                          Append(cols, column), rws, FALSE)

\* addComputedColumn once new Expression(expressionStr) has ended with made
ComputedColumn(heap, cols, rws, name, made) ==
    IF made.constructor # "Expression" THEN Manager(heap, cols, rws, TRUE)
    ELSE ComputedColumnEnd(
             NotifyDependees(
                 Append(heap, [Column(name) EXCEPT !.isComputed = TRUE]
                                  @@ [expression |-> made]),
                 cols, dependsOn([isComputed |-> TRUE, expression |-> made]),
                 1, Len(heap) + 1, << >>),
             cols, rws, Len(heap) + 1)

\* addComputedColumn(name, expressionStr)
addComputedColumn(heap, cols, rws, name, expressionStr) ==
    ComputedColumn(heap, cols, rws, name, Expression(expressionStr))

\* Object.keys(userData), userData being written as its entries in order
Keys(entries) == [k \in DOMAIN entries |-> entries[k].key]

\* the object of the entries
RECURSIVE ObjectOf(_)
ObjectOf(entries) ==
    IF entries = << >> THEN << >>
    ELSE (entries[Len(entries)].key :> entries[Len(entries)].value)
             @@ ObjectOf(SubSeq(entries, 1, Len(entries) - 1))

\* the reduce of addData from the i-th key on: the Set of dependents in
\* insertion order, or thrown when getColumn finds no column
RECURSIVE DependentsOf(_, _, _, _, _)
DependentsOf(heap, cols, keys, i, found) ==
    IF i > Len(keys) THEN [dependents |-> found, thrown |-> FALSE]
    ELSE IF getColumn(heap, cols, keys[i]) = 0
    THEN [dependents |-> found, thrown |-> TRUE]
    ELSE DependentsOf(heap, cols, keys, i + 1,
             Unique(found \o heap[getColumn(heap, cols, keys[i])].dependents))

\* the forEach of addData from the i-th dependent on: computedData, or
\* thrown when computeValueFor throws
RECURSIVE ComputeDependents(_, _, _, _, _)
RECURSIVE ComputeDependent(_, _, _, _, _, _)
ComputeDependents(heap, dependents, i, data, computedData) ==
    IF i > Len(dependents)
    THEN [computedData |-> computedData, thrown |-> FALSE]
    ELSE ComputeDependent(heap, dependents, i, data, computedData,
                          computeValueFor(heap[dependents[i]], data))

\* computedData[dependent.name] = made, and the dependents after it
ComputeDependent(heap, dependents, i, data, computedData, made) ==
    IF made.thrown THEN [computedData |-> computedData, thrown |-> TRUE]
    ELSE ComputeDependents(heap, dependents, i + 1, data,
             (heap[dependents[i]].name :> made.value) @@ computedData)

\* addData once its two loops have ended
DataEnd(heap, cols, rws, data, found, computed) ==
    IF found.thrown \/ computed.thrown THEN Manager(heap, cols, rws, TRUE)
    ELSE Manager(heap, cols,
                 Append(rws, Assign(data, computed.computedData)), FALSE)

\* addData(userData)
addData(heap, cols, rws, entries) ==
    LET found == DependentsOf(heap, cols, Keys(entries), 1, << >>)
    IN  DataEnd(heap, cols, rws, ObjectOf(entries), found,
                IF found.thrown THEN found
                ELSE ComputeDependents(heap, found.dependents, 1,
                                       ObjectOf(entries), << >>))

\* most Column objects constructed, most rows added
MaxColumns == 4
MaxRows == 1

\* the user columns of index.test.js, V in L and n in mol as Unit objects,
\* and n without unit
UserColumns ==
    {[name |-> <<"V">>, unit |-> Unit(19, 1, 1)],
     [name |-> <<"n">>, unit |-> Unit(13, 1, 1)],
     [name |-> <<"n">>, unit |-> undefinedValue]}

\* c = n/V (index.test.js), a column computed from c alone, and one whose
\* expression has an operator after a function call
ComputedColumns ==
    {[name |-> <<"c">>, expressionStr |-> <<"n", "/", "V">>],
     [name |-> <<"e">>, expressionStr |-> <<"c", "*", "c">>],
     [name |-> <<"d">>,
      expressionStr |-> <<"l", "o", "g", "(", "c", ")", "+", "V">>]}

\* the rows given to addData: 2.1 and 1e1 as fromString makes them
UserEntries ==
    {<<[key |-> <<"V">>, value |-> EmalNumber(21, 1)]>>,
     <<[key |-> <<"V">>, value |-> EmalNumber(21, 1)],
       [key |-> <<"n">>, value |-> EmalNumber(10, 0)]>>,
     <<[key |-> <<"c">>, value |-> EmalNumber(10, 0)]>>,
     <<[key |-> <<"x">>, value |-> EmalNumber(10, 0)]>>}

\* the manager is left as the call left it
Called(m) ==
    /\ columnHeap' = m.columnHeap
    /\ columns' = m.columns
    /\ rows' = m.rows
    /\ managerThrown' = m.thrown
    /\ UNCHANGED <<lexVars, exprVars, numberVars, codeVars, logVars>>

\* manager.addUserColumn(name, unit)
AddUserColumn ==
    /\ Len(columnHeap) < MaxColumns
    /\ \E given \in UserColumns :
          Called(addUserColumn(columnHeap, columns, rows, given.name,
                               given.unit))

\* manager.addComputedColumn(name, expressionStr)
AddComputedColumn ==
    /\ Len(columnHeap) < MaxColumns
    /\ \E given \in ComputedColumns :
          Called(addComputedColumn(columnHeap, columns, rows, given.name,
                                   given.expressionStr))

\* manager.addData(userData)
AddData ==
    /\ Len(rows) < MaxRows
    /\ \E entries \in UserEntries :
          Called(addData(columnHeap, columns, rows, entries))

NextManager == AddUserColumn \/ AddComputedColumn \/ AddData

SpecManager == InitLex /\ [][NextManager]_vars

\* C26: whenever addData appends a row, every computed column of the
\* manager one of whose dependees has a value in that row has a value in
\* that row too, whether the dependee is a user column or a computed one.
C26_DependentsComputed ==
    [][Len(rows') > Len(rows) =>
          \A k \in DOMAIN columns :
              (/\ columnHeap[columns[k]].isComputed
               /\ \E j \in DOMAIN dependsOn(columnHeap[columns[k]]) :
                     dependsOn(columnHeap[columns[k]])[j]
                         \in DOMAIN rows'[Len(rows')])
                  => columnHeap[columns[k]].name
                         \in DOMAIN rows'[Len(rows')]]_vars

-----------------------------------------------------------------------------
(* BigInt values longer than the integers of TLC *)

\* A BigInt is written as its sign and its magnitude in groups of three
\* decimal digits, least significant group first and no zero group last:
\* 0n has the empty magnitude.  43429448190325182765n is
\* <<765, 182, 325, 190, 448, 429, 43>>.
GroupBase == Pow10(3)

Big(neg, mag) == [neg |-> neg /\ mag # << >>, mag |-> mag]

\* a sequence given as a function, its elements computed once
Tuple(f) == f \o << >>

Zeros(n) == Tuple([k \in 1..n |-> 0])

Group(mag, k) == IF k \in DOMAIN mag THEN mag[k] ELSE 0

\* the magnitude without zero groups at its end
RECURSIVE Trim(_)
Trim(mag) ==
    IF mag = << >> \/ mag[Len(mag)] # 0 THEN mag
    ELSE Trim(SubSeq(mag, 1, Len(mag) - 1))

\* The magnitude of a non-negative sum of groups that are any integers:
\* the carries move up one group at a time until every group is a digit
\* group.
RECURSIVE Normalize(_)
Normalize(cols) ==
    IF \A k \in DOMAIN cols : cols[k] >= 0 /\ cols[k] < GroupBase
    THEN Trim(cols)
    ELSE Normalize(Tuple([k \in 1..(Len(cols) + 1) |->
             (IF k <= Len(cols) THEN cols[k] % GroupBase ELSE 0)
                 + (IF k > 1 THEN cols[k - 1] \div GroupBase ELSE 0)]))

MagLess(a, b) ==
    IF Len(a) # Len(b) THEN Len(a) < Len(b)
    ELSE \E k \in DOMAIN a :
            /\ a[k] < b[k]
            /\ \A j \in (k + 1)..Len(a) : a[j] = b[j]

MagAdd(a, b) ==
    Normalize(Tuple([k \in 1..(IF Len(a) > Len(b) THEN Len(a)
                                                  ELSE Len(b)) |->
                        Group(a, k) + Group(b, k)]))

\* a - b, a being no less than b
MagSub(a, b) == Normalize(Tuple([k \in 1..Len(a) |-> a[k] - Group(b, k)]))

\* a + b
BigAdd(a, b) ==
    IF a.neg = b.neg THEN Big(a.neg, MagAdd(a.mag, b.mag))
    ELSE IF MagLess(a.mag, b.mag) THEN Big(b.neg, MagSub(b.mag, a.mag))
    ELSE Big(a.neg, MagSub(a.mag, b.mag))

\* a - b
BigSub(a, b) == BigAdd(a, Big(~b.neg, b.mag))

\* the number of zero groups at the low end of a magnitude that is not 0
LowZeros(mag) ==
    (CHOOSE k \in DOMAIN mag :
        mag[k] # 0 /\ \A j \in 1..(k - 1) : mag[j] = 0) - 1

\* the sum of the products of groups that make group k of a product
RECURSIVE ProductColumn(_, _, _, _, _)
ProductColumn(a, b, k, lo, hi) ==
    IF lo > hi THEN 0
    ELSE IF lo = hi THEN a[lo] * Group(b, k + 1 - lo)
    ELSE ProductColumn(a, b, k, lo, (lo + hi) \div 2)
             + ProductColumn(a, b, k, (lo + hi) \div 2 + 1, hi)

\* the product of two magnitudes, za and zb being their low zero groups
MagMulStripped(a, b, za, zb) ==
    Zeros(za + zb)
        \o Normalize(Tuple([k \in 1..(Len(a) - za + Len(b) - zb) |->
               ProductColumn(SubSeq(a, za + 1, Len(a)),
                             SubSeq(b, zb + 1, Len(b)), k, 1, Len(a) - za)]))

\* a * b
BigMul(a, b) ==
    IF a.mag = << >> \/ b.mag = << >> THEN Big(FALSE, << >>)
    ELSE Big(a.neg # b.neg,
             MagMulStripped(a.mag, b.mag, LowZeros(a.mag), LowZeros(b.mag)))

\* a * 10n ** k
BigTimesPow10(a, k) ==
    IF a.mag = << >> THEN a
    ELSE Big(a.neg,
             Zeros(k \div 3)
                 \o Normalize(Tuple([j \in DOMAIN a.mag |->
                                        a.mag[j] * Pow10(k % 3)])))

\* The groups lo..hi of the quotient of a magnitude by a divisor s of at
\* most two groups, r being the remainder left by the groups above hi, and
\* the remainder they leave; the upper half is divided first.
RECURSIVE ShortDiv(_, _, _, _, _)
RECURSIVE ShortDivLow(_, _, _, _, _)
ShortDiv(mag, s, lo, hi, r) ==
    IF lo = hi
    THEN [q |-> <<(r * GroupBase + mag[lo]) \div s>>,
          r |-> (r * GroupBase + mag[lo]) % s]
    ELSE ShortDivLow(mag, s, lo, (lo + hi) \div 2,
                     ShortDiv(mag, s, (lo + hi) \div 2 + 1, hi, r))

\* (the test is there for the upper half to be computed before the lower
\* half is entered; a remainder is less than the divisor)
ShortDivLow(mag, s, lo, mid, high) ==
    IF high.r >= s THEN high
    ELSE LET low == ShortDiv(mag, s, lo, mid, high.r)
         IN  [q |-> low.q \o high.q, r |-> low.r]

MagDivSmall(a, s) ==
    IF a = << >> THEN << >> ELSE Trim(ShortDiv(a, s, 1, Len(a), 0).q)

\* the quotient of a magnitude by one that has at most two groups (fewer
\* than seven digits) above its zb low zero groups, as all divisors here
MagDivStripped(a, b, zb) ==
    IF Len(a) <= zb THEN << >>
    ELSE CASE Len(b) - zb = 1 ->
                 MagDivSmall(SubSeq(a, zb + 1, Len(a)), b[zb + 1])
           [] Len(b) - zb = 2 ->
                 MagDivSmall(SubSeq(a, zb + 1, Len(a)),
                             b[zb + 1] + GroupBase * b[zb + 2])

\* a / b, b not 0n: the quotient truncated towards zero
BigDiv(a, b) ==
    Big(a.neg # b.neg, MagDivStripped(a.mag, b.mag, LowZeros(b.mag)))

\* BigInt(n), n a number
RECURSIVE MagOf(_)
MagOf(n) ==
    IF n = 0 THEN << >> ELSE <<n % GroupBase>> \o MagOf(n \div GroupBase)

BigOf(n) == IF n < 0 THEN Big(TRUE, MagOf(0 - n)) ELSE Big(FALSE, MagOf(n))

\* the digits of a group, the leading zeros written
GroupDigits(n) ==
    [k \in 1..(3 - Len(Digits(n))) |-> "0"] \o Digits(n)

\* the digits of the m most significant groups of a magnitude that is not 0
RECURSIVE MagPrefix(_, _)
MagPrefix(mag, m) ==
    IF m <= 1 \/ Len(mag) = 1 THEN Digits(mag[Len(mag)])
    ELSE MagPrefix(mag, m - 1)
             \o (IF Len(mag) >= m THEN GroupDigits(mag[Len(mag) - m + 1])
                 ELSE << >>)

\* a.toString(10).length
BigLength(a) ==
    (IF a.neg THEN 1 ELSE 0)
        + (IF a.mag = << >> THEN 1
           ELSE 3 * (Len(a.mag) - 1) + Len(Digits(a.mag[Len(a.mag)])))

\* a.toString(10).substr(0, count)
BigPrefix(a, count) ==
    LET digits == IF a.mag = << >> THEN <<"0">>
                  ELSE MagPrefix(a.mag, count \div 3 + 2)
        str == IF a.neg THEN <<"-">> \o digits ELSE digits
    IN  SubSeq(str, 1, IF count < Len(str) THEN count ELSE Len(str))

\* the number of characters "0" that end a.toString(10)
TrailingZeros(a) ==
    IF a.mag = << >> THEN 1
    ELSE LET low == LowZeros(a.mag)
         IN  3 * low + (IF a.mag[low + 1] % 100 = 0 THEN 2
                        ELSE IF a.mag[low + 1] % 10 = 0 THEN 1 ELSE 0)

\* a / 10n ** k
BigDivPow10(a, k) ==
    IF Len(a.mag) <= k \div 3 THEN Big(FALSE, << >>)
    ELSE Big(a.neg, MagDivSmall(SubSeq(a.mag, k \div 3 + 1, Len(a.mag)),
                                Pow10(k % 3)))

-----------------------------------------------------------------------------
(* number.js on these BigInt values: the operations, simplify, log10 *)

\* new EmalNumber(rawInt, decimalPlace)
LongNumber(rawInt, decimalPlace) ==
    [constructor |-> "EmalNumber", rawInt |-> rawInt,
     decimalPlace |-> decimalPlace, isNegative |-> rawInt.neg]

fromIntLong(n) == LongNumber(BigOf(n), 0)

INV_LN10 ==
    LongNumber(Big(FALSE, <<765, 182, 325, 190, 448, 429, 43>>), 20)

\* x.rawLength()
rawLengthLong(x) ==
    BigLength(x.rawInt) - (IF x.isNegative THEN 1 ELSE 0)

preprocessOpLong(a, b) ==
    LET aLen == a.decimalPlace
        bLen == b.decimalPlace
    IN  IF aLen > bLen
        THEN [aInt |-> a.rawInt,
              bInt |-> BigTimesPow10(b.rawInt, aLen - bLen), oLen |-> aLen]
        ELSE IF bLen > aLen
        THEN [aInt |-> BigTimesPow10(a.rawInt, bLen - aLen),
              bInt |-> b.rawInt, oLen |-> bLen]
        ELSE [aInt |-> a.rawInt, bInt |-> b.rawInt, oLen |-> aLen]

addLong(a, b) ==
    LET o == preprocessOpLong(a, b)
    IN  LongNumber(BigAdd(o.aInt, o.bInt), o.oLen)

subLong(a, b) ==
    LET o == preprocessOpLong(a, b)
    IN  LongNumber(BigSub(o.aInt, o.bInt), o.oLen)

mulLong(a, b) ==
    LET o == preprocessOpLong(a, b)
    IN  LongNumber(BigMul(o.aInt, o.bInt), o.oLen * 2)

divLong(a, b) ==
    LET o == preprocessOpLong(a, b)
        offset == ENUMBER_DEFAULT_DIV_OFFSET + o.oLen
    IN  IF offset < 0 \/ o.bInt.mag = << >> THEN Thrown("RangeError")
        ELSE LongNumber(BigDiv(BigTimesPow10(o.aInt, offset), o.bInt),
                        offset)

\* x.simplify(): x afterwards.  A digit is taken off for each "0" that ends
\* the digits read before the loop, so 0n loses one decimal place.
simplify(x) ==
    [x EXCEPT !.rawInt = BigDivPow10(@, TrailingZeros(x.rawInt)),
              !.decimalPlace = @ - TrailingZeros(x.rawInt)]

\* x.toString(decimalCount) as above: the string, and x afterwards
toStringLong(x, decimals) ==
    LET neededLen == decimals + 2
        short == neededLen > rawLengthLong(x)
        delta == neededLen - rawLengthLong(x)
        intLen == IF short THEN rawLengthLong(x) + delta
                  ELSE rawLengthLong(x)
        this == IF short
                THEN [x EXCEPT !.rawInt = BigTimesPow10(@, delta),
                               !.decimalPlace = @ + delta]
                ELSE x
        half == BigTimesPow10(BigOf(5), intLen - neededLen)
        rawInt == IF this.isNegative THEN BigSub(this.rawInt, half)
                  ELSE BigAdd(this.rawInt, half)
        exponent == intLen - this.decimalPlace - 1
        intStr == BigPrefix(rawInt, decimals + 2)
        intPartStr == IF this.isNegative THEN substrOf(intStr, 0, 2)
                      ELSE substrOf(intStr, 0, 1)
        floatPartStr == IF this.isNegative
                        THEN substrOf(intStr, 2, decimals)
                        ELSE substrOf(intStr, 1, decimals)
    IN  [string |-> intPartStr \o <<",">> \o floatPartStr
                        \o (IF exponent # 0
                            THEN <<"e">> \o IntToString(exponent)
                            ELSE << >>),
         this |-> this]

logRestrictTest(x) ==
    LET firstChar == BigPrefix(x.rawInt, 1)
        secondChar == substrOf(BigPrefix(x.rawInt, 2), 1, 1)
    IN  IF firstChar \in {<<"7">>, <<"8">>, <<"9">>} THEN TRUE
        ELSE IF firstChar = <<"1">>
        THEN secondChar \in {<<"0">>, <<"1">>, <<"2">>, <<"3">>}
        ELSE FALSE

\* an object is constructed: the objects afterwards and its reference
Allocate(heap, object) ==
    [heap |-> Append(heap, object), ref |-> Len(heap) + 1]

\* the number itself is handed back
clone_Same(heap, ref) == [heap |-> heap, ref |-> ref]

\* heap[ref].clone()
clone(heap, ref) ==
    Allocate(heap, LongNumber(heap[ref].rawInt, heap[ref].decimalPlace))

\* EmalNumber[methodName](heap[a], heap[b]), the call returning
Static(methodName, heap, a, b) ==
    Allocate(heap,
             CASE methodName = "add" -> addLong(heap[a], heap[b])
               [] methodName = "sub" -> subLong(heap[a], heap[b])
               [] methodName = "mul" -> mulLong(heap[a], heap[b])
               [] methodName = "div" -> divLong(heap[a], heap[b]))

\* most multiplications of the argument reduction
MaxPow == 6

\* 2.3 and 0.87 (the documented values), 0.1, 1 and 2 as fromString makes
\* them, and fromInt of 1, 2 and 7
LogNumbers ==
    {LongNumber(BigOf(23), 1), LongNumber(BigOf(87), 2),
     LongNumber(BigOf(1), 1), LongNumber(BigOf(10), 1),
     LongNumber(BigOf(20), 1), fromIntLong(1), fromIntLong(2),
     fromIntLong(7)}

\* a number is constructed
NewLongNumber ==
    /\ logFrame.pc = "none"
    /\ returned = 0
    /\ Len(numberHeap) < 2
    /\ \E x \in LogNumbers :
          /\ numberHeap' = Append(numberHeap, x)
          /\ asGiven' = Append(asGiven, x)
    /\ UNCHANGED <<lexVars, exprVars, numberVars, codeVars, managerVars,
                   logFrame, returned>>

\* a call on the two numbers returns the number `made` holds
StaticReturns(made) ==
    /\ numberHeap' = made.heap
    /\ returned' = made.ref
    /\ UNCHANGED <<lexVars, exprVars, numberVars, codeVars, managerVars,
                   asGiven, logFrame>>

\* two numbers were constructed and nothing was called yet
TwoOperands ==
    /\ logFrame.pc = "none"
    /\ returned = 0
    /\ Len(numberHeap) = 2

\* EmalNumber.add(a, b)
LongAdd ==
    /\ TwoOperands
    /\ StaticReturns(Static("add", numberHeap, 1, 2))

\* EmalNumber.sub(a, b)
LongSub ==
    /\ TwoOperands
    /\ StaticReturns(Static("sub", numberHeap, 1, 2))

\* EmalNumber.mul(a, b)
LongMul ==
    /\ TwoOperands
    /\ StaticReturns(Static("mul", numberHeap, 1, 2))

\* EmalNumber.div(a, b)
LongDiv ==
    /\ TwoOperands
    /\ StaticReturns(Static("div", numberHeap, 1, 2))

\* log10(initialX) up to the first test of the reduction loop
Log10Begin ==
    /\ logFrame.pc = "none"
    /\ returned = 0
    /\ Len(numberHeap) = 1
    /\ \E made \in {clone(numberHeap, 1)} :
          /\ numberHeap' = made.heap
          /\ logFrame' = [NoFrame EXCEPT !.pc = "reduce", !.initialX = 1,
                                         !.x = made.ref,
                                         !.preprocessPow = 1]
    /\ UNCHANGED <<lexVars, exprVars, numberVars, codeVars, managerVars,
                   asGiven, returned>>

\* an iteration of the reduction loop
Log10Reduce ==
    /\ logFrame.pc = "reduce"
    /\ logFrame.preprocessPow < MaxPow
    /\ ~logRestrictTest(numberHeap[logFrame.x])
    /\ \E made \in {Allocate(numberHeap,
                             mulLong(numberHeap[logFrame.x],
                                     numberHeap[logFrame.initialX]))} :
          /\ numberHeap' = made.heap
          /\ logFrame' = [logFrame EXCEPT !.x = made.ref,
                                          !.preprocessPow = @ + 1]
    /\ UNCHANGED <<lexVars, exprVars, numberVars, codeVars, managerVars,
                   asGiven, returned>>

\* x.rawLength() - x.decimalPlace - (first digit 1 ? 1n : 0n)
PowTen(x) ==
    rawLengthLong(x) - x.decimalPlace
        - (IF BigPrefix(x.rawInt, 1) = <<"1">> THEN 1 ELSE 0)

\* the statements between the two loops, the objects being those after
\* x.decimalPlace += preprocessPowTen and delta the difference constructed
Log10Locals(frame, heap, powTen, delta) ==
    LET withDelta == Allocate(heap, delta)
        withDeltaPow == clone(withDelta.heap, withDelta.ref)
        withResult == Allocate(withDeltaPow.heap, fromIntLong(0))
    IN  [heap |-> withResult.heap,
         frame |-> [frame EXCEPT !.pc = "series",
                                 !.preprocessPowTen = powTen,
                                 !.delta = withDelta.ref,
                                 !.deltaPow = withDeltaPow.ref,
                                 !.result = withResult.ref, !.i = 1]]

\* the reduction loop ends: the decade shift is applied to x itself
Log10Shift ==
    /\ logFrame.pc = "reduce"
    /\ logRestrictTest(numberHeap[logFrame.x])
    /\ \E shifted \in {[numberHeap EXCEPT ![logFrame.x].decimalPlace =
                           @ + PowTen(numberHeap[logFrame.x])]} :
          \E made \in {Log10Locals(logFrame, shifted,
                                   PowTen(numberHeap[logFrame.x]),
                                   subLong(shifted[logFrame.x],
                                           fromIntLong(1)))} :
             /\ numberHeap' = made.heap
             /\ logFrame' = made.frame
    /\ UNCHANGED <<lexVars, exprVars, numberVars, codeVars, managerVars,
                   asGiven, returned>>

\* every divisor positive
Divisor_Unsigned(i) == i

\* (i % 2 === 0 ? -1 : 1) * i
Divisor(i) == (IF i % 2 = 0 THEN 0 - 1 ELSE 1) * i

\* an iteration of the series loop, the objects being those after result
\* was assigned
Log10Term(frame, withResult, heap) ==
    LET withDeltaPow == Allocate(withResult.heap,
                                 mulLong(heap[frame.deltaPow],
                                         heap[frame.delta]))
    IN  [heap |-> withDeltaPow.heap,
         frame |-> [frame EXCEPT !.result = withResult.ref,
                                 !.deltaPow = withDeltaPow.ref,
                                 !.i = @ + 1]]

Log10Series ==
    /\ logFrame.pc = "series"
    /\ logFrame.i < 10
    /\ \E made \in {Log10Term(logFrame,
                       Allocate(numberHeap,
                           addLong(numberHeap[logFrame.result],
                               mulLong(divLong(INV_LN10,
                                           fromIntLong(Divisor(logFrame.i))),
                                       numberHeap[logFrame.deltaPow]))),
                       numberHeap)} :
          /\ numberHeap' = made.heap
          /\ logFrame' = made.frame
    /\ UNCHANGED <<lexVars, exprVars, numberVars, codeVars, managerVars,
                   asGiven, returned>>

\* the two corrections; the quotient is simplified in place and returned
Log10Return ==
    /\ logFrame.pc = "series"
    /\ logFrame.i = 10
    /\ \E made \in {Allocate(numberHeap,
                       divLong(addLong(numberHeap[logFrame.result],
                                   fromIntLong(logFrame.preprocessPowTen)),
                               fromIntLong(logFrame.preprocessPow)))} :
          /\ numberHeap' = [made.heap EXCEPT ![made.ref] = simplify(@)]
          /\ returned' = made.ref
    /\ logFrame' = [logFrame EXCEPT !.pc = "returned"]
    /\ UNCHANGED <<lexVars, exprVars, numberVars, codeVars, managerVars,
                   asGiven>>

NextLog ==
    \/ NewLongNumber
    \/ LongAdd \/ LongSub \/ LongMul \/ LongDiv
    \/ Log10Begin \/ Log10Reduce \/ Log10Shift \/ Log10Series
    \/ Log10Return

SpecLog == InitLex /\ [][NextLog]_vars

\* log10 is one synchronous call: its reduction loop, once entered, takes
\* the next iteration or leaves
SpecLogFair == SpecLog /\ WF_vars(Log10Reduce \/ Log10Shift)

\* C21: add, sub, mul, div and log10 leave their operands as they were
\* constructed (rawInt and decimalPlace), and the number returned is an
\* object other than the operands.
C21_OperandsUnmodified ==
    /\ \A k \in DOMAIN asGiven : numberHeap[k] = asGiven[k]
    /\ returned \notin DOMAIN asGiven

\* log10 of 7 returned: its clone was shifted by one decade
C21_Witness ==
    /\ logFrame.pc = "returned"
    /\ returned > 1
    /\ logFrame.preprocessPowTen = 1
    /\ asGiven = <<fromIntLong(7)>>
    /\ numberHeap[1] = fromIntLong(7)

\* the number log10 returned, as toString(2) writes it
Rendered == toStringLong(numberHeap[returned], 2).string

\* C23: log10 of the literal 2.3 is written 3,62e-1 by toString(2) and
\* log10 of the literal 0.87 is written -6,05e-2; the number returned is
\* (result of the series + preprocessPowTen) / preprocessPow.
C23_Log10Documented ==
    logFrame.pc = "returned" =>
        /\ numberHeap[returned]
               = simplify(divLong(addLong(numberHeap[logFrame.result],
                                      fromIntLong(logFrame.preprocessPowTen)),
                                  fromIntLong(logFrame.preprocessPow)))
        /\ asGiven[1] = LongNumber(BigOf(23), 1)
               => Rendered = <<"3", ",", "6", "2", "e", "-", "1">>
        /\ asGiven[1] = LongNumber(BigOf(87), 2)
               => Rendered = <<"-", "6", ",", "0", "5", "e", "-", "2">>

\* log10 of 0.87 returned after a reduction with a decade shift of 0
C23_Witness ==
    /\ logFrame.pc = "returned"
    /\ asGiven[1] = LongNumber(BigOf(87), 2)
    /\ logFrame.preprocessPow = 1
    /\ logFrame.preprocessPowTen = 0
    /\ Rendered = <<"-", "6", ",", "0", "5", "e", "-", "2">>

\* in the reduction loop of log10(fromInt(1)) x is 1 with decimalPlace 0
\* at every test, and the test fails: an iteration leaves the loop where
\* it was, whatever the number of iterations taken
ReductionOfOneRepeats ==
    (logFrame.pc = "reduce" /\ asGiven[1] = fromIntLong(1))
        => /\ numberHeap[logFrame.x] = fromIntLong(1)
           /\ ~logRestrictTest(numberHeap[logFrame.x])
           /\ mulLong(numberHeap[logFrame.x], numberHeap[logFrame.initialX])
                  = numberHeap[logFrame.x]

\* C27: the reduction loop of log10 ends for every number above 0, the
\* numbers whose rawInt is 1 included (the literal 0.1, fromInt(1)).
C27_ReductionTerminates ==
    (logFrame.pc = "reduce") ~> (logFrame.pc # "reduce")

-----------------------------------------------------------------------------
(* Properties of the expression lexer on rejected delegations *)

\* the nested run delegate() makes at the cursor
NestedRun == transform(numberSm, run(numberSm, substr(input, position)))

\* C31: when exprToken is called on a sign or a digit and the number machine
\* rejects the rest of the input, the call records no delegation, keeps the
\* tokens there were and adds one token for that same character, an operator
\* token for a sign and a variable token for a digit, and the cursor moves
\* over that character alone.
C31_RejectedDelegationFallsThrough ==
    [][(/\ currentState = MS.RUNNING
        /\ parsingState = "exprToken"
        /\ position < Len(input)
        /\ isDigit(input[position + 1]) \/ isSign(input[position + 1])
        /\ hasThrown(NestedRun))
          => /\ delegations' = delegations
             /\ Len(tokens') = Len(tokens) + 1
             /\ SubSeq(tokens', 1, Len(tokens)) = tokens
             /\ isSign(input[position + 1])
                   => /\ tokens'[Len(tokens')]
                            = [type |-> "operator",
                               value |-> <<input[position + 1]>>]
                      /\ parsingState' = "exprToken"
             /\ isDigit(input[position + 1])
                   => /\ tokens'[Len(tokens')]
                            = [type |-> "variable",
                               value |-> <<input[position + 1]>>]
                      /\ parsingState' = "variableOrFunction"
             /\ input' = input
             /\ position' = position + 1
             /\ currentState' = MS.RUNNING]_vars

\* "2e+a": 2e is no literal and + is followed by no digit
C31_Witness ==
    /\ currentState = MS.PARSED
    /\ input = <<"2", "e", "+", "a">>
    /\ delegations = << >>
    /\ TokenTypes(tokens) = <<"variable", "operator", "variable">>
    /\ TokenValues(tokens) = <<<<"2", "e">>, <<"+">>, <<"a">>>>

-----------------------------------------------------------------------------
(* Properties of the expression lexer on identifiers *)

\* the characters that end an identifier
IsDelimiter(ch) ==
    \/ isWhitespace(ch) \/ isOperator(ch) \/ isOpeningBracket(ch)
    \/ isClosingBracket(ch) \/ isCommaSeparator(ch)

\* the k-th token is no longer the one variableOrFunction is eating into
IdentifierDone(k) == k < Len(tokens) \/ parsingState # "variableOrFunction"

\* an identifier token has type function exactly when it is done and its
\* whole text is log or max
IdentifiersClassified ==
    \A k \in DOMAIN tokens :
        tokens[k].type \in {"variable", "function"}
            => (tokens[k].type = "function"
                   <=> IdentifierDone(k) /\ tokens[k].value \in {LOG, MAX})

\* C32: an identifier token has type function exactly when its whole text,
\* at the first delimiter or at the end of the input, is log or max, and
\* type variable otherwise.  The call of variableOrFunction on a delimiter
\* leaves the text of the tokens as it was, moves the cursor forward, and
\* the delimiter gives no token when it is whitespace and exactly one token
\* otherwise.
C32_FunctionByWholeName ==
    [][/\ IdentifiersClassified'
       /\ (/\ currentState = MS.RUNNING
           /\ parsingState = "variableOrFunction"
           /\ position < Len(input)
           /\ IsDelimiter(input[position + 1]))
             => /\ position' > position
                /\ Len(delegations') = Len(delegations)
                      => position' = position + 1
                /\ parsingState' = "exprToken"
                /\ \A k \in 1..(Len(tokens) - 1) : tokens'[k] = tokens[k]
                /\ Untyped(tokens', Len(tokens)) = Untyped(tokens, Len(tokens))
                /\ Len(tokens')
                      = Len(tokens)
                           + (IF isWhitespace(input[position + 1]) THEN 0
                              ELSE 1)
                /\ (~isWhitespace(input[position + 1])
                       /\ Len(delegations') = Len(delegations))
                      => tokens'[Len(tokens')].value
                            = <<input[position + 1]>>]_vars

\* "log+2" is a function and a number: the delimiter + starts a literal
C32_Witness ==
    /\ currentState = MS.PARSED
    /\ input = <<"l", "o", "g", "+", "2">>
    /\ TokenTypes(tokens) = <<"function", "number">>
    /\ tokens[1].value = LOG
    /\ Len(delegations) = 1

-----------------------------------------------------------------------------
(* Properties of evaluate on operator tokens *)

\* what a - b and a / b are written from
Difference == App("sub", <<Var(<<"a">>), Var(<<"b">>)>>)

Quotient == App("div", <<Var(<<"a">>), Var(<<"b">>)>>)

\* C33: an operator token met with two operands or more on the stack takes
\* the last two; the one pushed earlier is the first argument and the one
\* pushed later the second.  The method is read on the constructor of the
\* first: nothing is called when the first is undefined, and the method of
\* the operator is called on the two otherwise (for a MockNumber first it
\* returns the MockNumber of the two inners).  a - b returns sub(a, b) and
\* a / b returns div(a, b).
C33_OperandsInSourceOrder ==
    [][/\ (/\ pc = "evaluate"
           /\ reduceIndex < Len(thisTokens)
           /\ thisTokens[reduceIndex + 1].type = "operator"
           /\ Len(evalAcc) >= 2)
             => LET n == Len(evalAcc)
                    left == evalAcc[n - 1]
                    right == evalAcc[n]
                    methodName ==
                        EEXPR_OPERATORS[thisTokens[reduceIndex + 1].value]
                            .methodName
                IN  /\ left = undefinedValue
                          => pc' = "thrown" /\ lastCall' = lastCall
                    /\ left # undefinedValue
                          => lastCall' = [methodName |-> methodName,
                                          args |-> <<left, right>>]
                    /\ (left # undefinedValue /\ right = undefinedValue)
                          => pc' = "thrown"
                    /\ (/\ left.constructor = "MockNumber"
                        /\ right # undefinedValue)
                          => /\ pc' = "evaluate"
                             /\ evalAcc'
                                   = Append(SubSeq(evalAcc, 1, n - 2),
                                            MockNumber(App(methodName,
                                                <<left.inner,
                                                  Get(right, "inner")>>)))
       /\ (pc' = "returned" /\ variables' = Bind(AllNames))
             => /\ source' = Difference
                      => result' = MockNumber(Difference)
                /\ source' = Quotient => result' = MockNumber(Quotient)]_vars

\* a - b returned sub(a, b)
C33_Witness ==
    /\ pc = "returned"
    /\ source = Difference
    /\ input = <<"a", " ", "-", " ", "b">>
    /\ lastCall = [methodName |-> "sub",
                   args |-> <<MockNumber(Var(<<"a">>)),
                              MockNumber(Var(<<"b">>))>>]
    /\ result = MockNumber(Difference)

-----------------------------------------------------------------------------
(* Properties of the conversion to postfix *)

\* the tokens that are numbers or variables
IsOperandToken(tok) == tok.type \in {"number", "variable"}

\* the tokens the postfix sequence is made of
IsKeptToken(tok) ==
    tok.type \in {"number", "variable", "operator", "function"}

\* how many times a token occurs in a sequence
Occurrences(tok, toks) == Cardinality({k \in DOMAIN toks : toks[k] = tok})

\* a closing bracket or a comma
IsClosingOrComma(tok) ==
    tok.type = "comma"
        \/ (tok.type = "bracket" /\ tok.bracketType = "closing")

\* C34: when the constructor has completed, every number, variable, operator
\* and function token of the lexed input is in Expression.tokens as many
\* times as in the input, the number and variable tokens are in the order of
\* the input, and at no step of the conversion is a closing bracket or a
\* comma token on the stack or in the output.
C34_ConversionKeepsTokens ==
    /\ \A k \in DOMAIN acc.stack : ~IsClosingOrComma(acc.stack[k])
    /\ \A k \in DOMAIN acc.tokens : ~IsClosingOrComma(acc.tokens[k])
    /\ \A k \in DOMAIN thisTokens : ~IsClosingOrComma(thisTokens[k])
    /\ pc \in {"constructed", "evaluate", "returned", "thrown"}
          => /\ \A k \in DOMAIN tokens :
                   IsKeptToken(tokens[k])
                       => Occurrences(tokens[k], thisTokens)
                             = Occurrences(tokens[k], tokens)
             /\ \A k \in DOMAIN thisTokens :
                   IsKeptToken(thisTokens[k])
                       => Occurrences(thisTokens[k], tokens) >= 1
             /\ SelectSeq(thisTokens, IsOperandToken)
                   = SelectSeq(tokens, IsOperandToken)

\* "2 * ( a + 2 )" is converted to 2 a 2 + *
C34_Witness ==
    /\ pc = "constructed"
    /\ input = Text(<<<<"2">>, <<"*">>, <<"(">>, <<"a">>, <<"+">>, <<"2">>,
                      <<")">>>>)
    /\ TokenTypes(tokens)
          = <<"number", "operator", "bracket", "variable", "operator",
              "number", "bracket">>
    /\ TokenTypes(thisTokens)
          = <<"number", "variable", "number", "operator", "operator">>
    /\ TokenValues(SubSeq(thisTokens, 4, 5)) = <<<<"+">>, <<"*">>>>


-----------------------------------------------------------------------------
(* Properties of the value of a parsed literal *)

\* the digit a character writes
DigitValue(ch) == CHOOSE d \in 0..9 : ToString(d) = ch

\* the natural number a sequence of digits writes, leading zeros allowed
RECURSIVE Numeral(_)
Numeral(digits) ==
    IF digits = << >> THEN 0
    ELSE 10 * Numeral(SubSeq(digits, 1, Len(digits) - 1))
         + DigitValue(digits[Len(digits)])

\* m * 10^-p and n * 10^-q are the same value
SameValue(m, p, n, q) ==
    IF p >= q THEN m = n * Pow10(p - q) ELSE m * Pow10(q - p) = n

\* the value of a written literal: its digits without the point as an
\* integer, and the count of places the point and the exponent shift it by
WrittenMagnitude(l) ==
    LET n == Numeral(l.intPart \o l.floatPart)
    IN  IF l.sign = <<"-">> THEN 0 - n ELSE n

WrittenPlaces(l) == Len(l.floatPart) - SignedExponent(l)

\* C35: for every literal the number parser accepts (optional sign, integer
\* digits, optional decimal point with zero or more fractional digits,
\* optional signed exponent), rawInt * 10^-decimalPlace of the number
\* returned by fromString is the mathematical value of the literal; leading
\* zeros ("0.05"), an empty fraction ("2,") and exponents of either sign
\* included.
C35_ValueOfLiteral ==
    (opName = "fromString" /\ literal # NoLiteral) =>
        /\ exception = "none"
        /\ SameValue(number.rawInt, number.decimalPlace,
                     WrittenMagnitude(literal), WrittenPlaces(literal))
        /\ number.isNegative = (WrittenMagnitude(literal) < 0)

C35_Witness ==
    /\ opName = "fromString"
    /\ literal = Literal(<< >>, <<"0">>, <<".">>, <<"0", "5">>, << >>,
                         << >>, << >>)
    /\ number = EmalNumber(5, 2)


-----------------------------------------------------------------------------
(* Properties of toString called again *)

\* a call of toString that follows a call of toString on the same number
\* with the same decimalCount
RenderedAgain ==
    /\ opName = "toString"
    /\ opName' = "toString"
    /\ decimalCount' = decimalCount

\* toString keeps the value and the sign of the number it pads
RenderKeepsValue ==
    opName' = "toString" =>
        /\ SameValue(number'.rawInt, number'.decimalPlace,
                     number.rawInt, number.decimalPlace)
        /\ number'.isNegative = number.isNegative

\* C39: toString leaves rawInt * 10^-decimalPlace and the sign of the number
\* as they were before the call, whatever padding it applies, and rendering
\* the same number twice with the same decimalCount returns the same string.
C39_RenderingRepeatable ==
    [][/\ RenderKeepsValue
       /\ RenderedAgain => rendered' = rendered]_vars

\* the value and the sign are kept by every call
ValueKeptByRendering == [][RenderKeepsValue]_vars

\* every number but zero is rendered the same again
RenderingOfNonZeroRepeatable ==
    [][(RenderedAgain /\ number.rawInt # 0) => rendered' = rendered]_vars

\* zero is rendered with another exponent at every call
RenderingOfZeroChanges ==
    [][(RenderedAgain /\ number.rawInt = 0) => rendered' # rendered]_vars


-----------------------------------------------------------------------------
(* Properties of the token list of a sequential machine *)

\* a state function is about to be called by a sequential machine
SequentialStep ==
    /\ machine # "none"
    /\ Machines[machine].type = "sequential"
    /\ currentState = MS.RUNNING

\* C36: in the ordered (sequential) mode the token list is append-only:
\* every call of a state function leaves the length of the list as it was
\* or makes it one longer, and eat and mutate write the last token only:
\* the tokens before the last one are never changed.
C36_TokensAppendOnly ==
    [][SequentialStep =>
          /\ Len(tokens') \in {Len(tokens), Len(tokens) + 1}
          /\ \A k \in 1..(Len(tokens) - 1) : tokens'[k] = tokens[k]
          /\ currentToken = Len(tokens) - 1
          /\ currentToken' = Len(tokens') - 1]_vars

\* "max a" read: the second token is written, the first one is kept
C36_Witness ==
    /\ machine = "expressionSm"
    /\ input = <<"m", "a", "x", " ", "a">>
    /\ Len(tokens) = 2
    /\ tokens[1].value = <<"m", "a", "x">>
    /\ tokens[2].value = <<"a">>
    /\ currentToken = 1


-----------------------------------------------------------------------------
(* Properties of transform() after a failed run *)

\* C37: a failed run is never reported as a success: once run() has left the
\* machine in the failure state, transform() applies no transformer and
\* changes no token, and hasThrown() is still true afterwards.
C37_FailureKept ==
    [][(machine # "none" /\ currentState = MS.ERROR) =>
          /\ tokens' = tokens
          /\ exception' = "none"
          /\ hasThrown([currentState |-> currentState'])]_vars

\* transform() was called after the run on "2e" failed: intPart is still
\* the token object, not the text toValue makes of it
C37_Witness ==
    /\ machine = "numberSm"
    /\ input = <<"2", "e">>
    /\ currentState = MS.ERROR
    /\ transformCalls >= 1
    /\ "intPart" \in DOMAIN tokens
    /\ tokens["intPart"] = [value |-> <<"2">>]


-----------------------------------------------------------------------------
(* Properties of evaluate called again *)

\* the Expression exists: its constructor has returned
Constructed == pc \in {"constructed", "evaluate", "returned", "thrown"}

\* what evaluate(variables) computes from the tokens alone
EvaluationOutcome == evaluate([tokens |-> thisTokens], variables)

\* C38: evaluate(bindings) changes neither the Expression nor the bindings:
\* after any sequence of evaluate calls the tokens of the Expression are
\* the ones its constructor left, and every call returns (or throws) what
\* the tokens and the bindings of that call determine, so that two
\* evaluations with equal bindings return equal results.
C38_EvaluationPure ==
    /\ [][/\ Constructed => thisTokens' = thisTokens
          /\ pc = "evaluate" => variables' = variables]_vars
    /\ [](/\ pc = "returned" => /\ ~EvaluationOutcome.thrown
                                /\ result = EvaluationOutcome.value
          /\ pc = "thrown" => EvaluationOutcome.thrown)

\* a / b evaluated with a and b bound: the three tokens of the postfix
\* sequence are still in the Expression and the result is their quotient
C38_Witness ==
    /\ pc = "returned"
    /\ source = Quotient
    /\ variables = Bind(AllNames)
    /\ TokenTypes(thisTokens) = <<"variable", "variable", "operator">>
    /\ result = EvaluationOutcome.value
    /\ result = MockNumber(Quotient)


-----------------------------------------------------------------------------
(* Properties of run()'s character loop *)

\* longest text of a run that is followed to its end under fairness
MaxRunLen == 3

\* "2,5+a", "-2e" and "a 2"
DocumentedRuns ==
    {<<"2", ",", "5", "+", "a">>, <<"-", "2", "e">>, <<"a", " ", "2">>}

RunInputs(name) ==
    CASE name = "numberSm" -> TextsUpTo({"2", "e", "-"}, MaxRunLen)
      [] name = "lineSm" -> TextsUpTo({"l", " ", "="}, MaxRunLen)
      [] name = "expressionSm" ->
            TextsUpTo({"a", "2", "+"}, MaxRunLen) \cup DocumentedRuns

\* sm.run(input) up to the first test of the loop condition
RunStart ==
    /\ machine = "none"
    /\ currentState = MS.WAITING
    /\ \E name \in DOMAIN Machines :
          \E str \in RunInputs(name) :
              /\ machine' = name
              /\ input' = str
              /\ parsingState' = Machines[name].startState
    /\ position' = 0
    /\ currentState' = MS.RUNNING
    /\ tokens' = << >>
    /\ currentToken' = -1
    /\ delegations' = << >>
    /\ isExponent' = FALSE
    /\ transformCalls' = 0
    /\ UNCHANGED <<dataVars, exprVars, literal, operands, opName, number,
                   decimalCount, rendered, exception>>

NextRun == RunStart \/ MachineIterate

SpecRun == InitLex /\ [][NextRun]_vars

\* the closure of run(str) before the first call of a state function and
\* after every iteration of the loop
RECURSIVE RunTrace(_, _)
RunTrace(c, state) ==
    IF c.currentState # MS.RUNNING THEN <<c>>
    ELSE LET r == Iterate(c, state) IN <<c>> \o RunTrace(r, r.ret)

\* the iterations of every run of SpecRun
RunTable ==
    UNION {{[machine |-> name, input |-> str,
             trace |-> RunTrace(
                 Return(NewRun(Machines[name].type, str),
                        Machines[name].startState),
                 Machines[name].startState)] :
               str \in RunInputs(name)} : name \in DOMAIN Machines}

\* one iteration of run()'s character loop, read from RunTable
RunIterate ==
    /\ machine # "none"
    /\ currentState = MS.RUNNING
    /\ \E t \in RunTable :
          /\ t.machine = machine
          /\ t.input = input
          /\ \E k \in 1..(Len(t.trace) - 1) :
                /\ t.trace[k] = MachineClosure
                /\ position' = t.trace[k + 1].position
                /\ currentState' = t.trace[k + 1].currentState
                /\ parsingState' = t.trace[k + 1].ret
                /\ tokens' = t.trace[k + 1].tokens
                /\ currentToken' = t.trace[k + 1].currentToken
                /\ delegations' = t.trace[k + 1].delegations
                /\ isExponent' = t.trace[k + 1].isExponent
    /\ UNCHANGED <<dataVars, input, exprVars, machine, transformCalls, literal,
                   operands, opName, number, decimalCount, rendered,
                   exception>>

\* run()'s loop is sequential code: it goes on for as long as the condition
\* of the for statement holds.  The iteration is the one RunTable holds.
SpecRunFair == SpecRun /\ WF_vars(RunIterate)

\* a state function is about to be called
Running == machine # "none" /\ currentState = MS.RUNNING

\* one call of a state function: it is made at a cursor within the input or
\* at its end, the cursor is not moved back, and a call after which the loop
\* goes on is followed by one made at least one character further
CursorAdvances ==
    Running => /\ position <= Len(input)
               /\ position' >= position
               /\ currentState' = MS.RUNNING => position' >= position + 1

\* C40: StateMachine.run terminates for every input: the cursor never
\* decreases between two calls of a state function, and a state function
\* is called at most length(input) + 1 times, nested number machines being
\* runs of their own.
C40_RunTerminates ==
    /\ [][CursorAdvances]_vars
    /\ Running ~> ~Running

\* the run on "2,5+a" came to its end: the first call delegated the three
\* characters of the literal, the last one was made at the end of the input
C40_Witness ==
    /\ machine = "expressionSm"
    /\ input = <<"2", ",", "5", "+", "a">>
    /\ currentState = MS.PARSED
    /\ TokenTypes(tokens) = <<"number", "operator", "variable">>
    /\ delegations = <<[at |-> 0, consumed |-> 3]>>
    /\ position = Len(input) + 1


\* every iteration of the loop is the one RunTable holds
TableAgrees == [][Running => RunIterate]_vars

\* the cursor advances in every run of the three machines
CursorAlwaysAdvances == [][CursorAdvances]_vars

=============================================================================
